---- MODULE Spec2Model ----
(***************************************************************************)
(* OpenLRS receiver link engine for the RFM22B (pios_openlrs.c).           *)
(*                                                                         *)
(* The model follows the driver from PIOS_OpenLRS_Init through the task's  *)
(* setup (with or without bind listening) into the operational loop, with  *)
(* the radio as the environment: it validates packets, finishes            *)
(* transmissions, resets itself, and raises the external interrupt.        *)
(* Time passes only where the task sleeps, and that is when the radio's    *)
(* events happen; the interrupt handler runs to completion before the task *)
(* takes its next step.                                                    *)
(***************************************************************************)
EXTENDS Integers, Sequences, FiniteSets, TLC

\* ------------------------------------------------------------------------
\* Bounds of the model
\* ------------------------------------------------------------------------

\* Length of bind_data.hopchannel. MAXHOPS comes from openlrs.h, which is
\* not among the sources; the model is parametric in it and keeps it small.
MAXHOPS == 3

\* The external interrupt fires at most this many times in a run: that many
\* packets received, packets sent and resets of the radio are followed.
MaxIrqs == 2

\* Scheduler iterations of the operational loop that are followed.
MaxIter == 10

\* Scheduler iterations that are followed where the radio does not reset
\* and the board starts on a stored binding: enough for a link with two hop
\* channels to be acquired, lost, and searched for over two slow hops.
MaxLinkIter == 28

\* Idle iterations of the bind wait loop that are followed.
MaxBindIdle == 1

\* A transmission is over, sent or lost to a reset, within this many polls
\* of tx_packet, or it is never over and tx_packet gives up.
MaxTxPolls == 1

\* ------------------------------------------------------------------------
\* Program constants
\* ------------------------------------------------------------------------

W8  == 2^8
W16 == 2^16

Available   == "Available"
Receive     == "Receive"
Received    == "Received"
Transmit    == "Transmit"
Transmitted == "Transmitted"
RfModes == {Available, Receive, Received, Transmit, Transmitted}

\* openlrs.h: the version a BindData must carry, the first byte of a bind
\* packet and of its acknowledgement.
BINDING_VERSION == 9
CHAR_b == 98
CHAR_B == 66

\* openlrs.h flag bits of bind_data.flags.
TELEMETRY_MASK == 24
DIVERSITY_ENABLED == 128
TELEMETRY_PACKETSIZE == 9

\* The build does not define LIMIT_RATE_TO_50HZ.
LIMIT_RATE_TO_50HZ == FALSE

\* tx_packet gives up after this many microseconds.
TX_TIMEOUT_US == 100000

\* The loss window is the interval plus this slack; RSSI is sampled this
\* long before the next packet is due.
LOSS_SLACK_US == 1000
RSSI_LEAD_US == 1500

\* modem_params[].bps
modem_bps == <<4800, 9600, 19200, 57600, 125000>>

pktsizes == <<0, 7, 11, 12, 16, 17, 21, 0>>

\* ------------------------------------------------------------------------
\* Bit arithmetic on bytes
\* ------------------------------------------------------------------------

Min(a, b) == IF a < b THEN a ELSE b

Bit(x, k) == (x \div (2^k)) % 2

\* x & m on 16 bits
AndMask(x, m) ==
  LET F[k \in 0..16] ==
        IF k = 16 THEN 0
        ELSE (IF Bit(x, k) = 1 /\ Bit(m, k) = 1 THEN 2^k ELSE 0) + F[k + 1]
  IN F[0]

\* a ^ b on bytes
Xor8(a, b) ==
  LET F[k \in 0..8] ==
        IF k = 8 THEN 0
        ELSE (IF Bit(a, k) # Bit(b, k) THEN 2^k ELSE 0) + F[k + 1]
  IN F[0]

\* A uint32_t timestamp is kept as its two 16-bit halves, [h, l], so that
\* the arithmetic wraps at 2^32 exactly as in the program.
U32(n) == [h |-> (n \div W16) % W16, l |-> n % W16]

\* a + n on uint32_t, for a timestamp a and a number n below 2^31
Add32(a, n) ==
  LET lo == a.l + (n % W16)
  IN  [h |-> (a.h + (n \div W16) + (lo \div W16)) % W16, l |-> lo % W16]

\* a - b on uint32_t, as in (timeUs - lastPacketTimeUs)
Sub32(a, b) ==
  LET borrow == IF a.l < b.l THEN 1 ELSE 0
  IN  [h |-> (a.h - b.h - borrow + 2 * W16) % W16, l |-> (a.l - b.l + W16) % W16]

\* d > n and d < n for a uint32_t d and a number n below 2^31
Gt32(d, n) == d.h >= 2^15 \/ d.h * W16 + d.l > n

Lt32(d, n) == d.h < 2^15 /\ d.h * W16 + d.l < n

\* ------------------------------------------------------------------------
\* OpenLRS data formatting utilities
\* ------------------------------------------------------------------------

getPacketSize(bd) == pktsizes[(bd.flags % 8) + 1]

\* The product stays below 2^31 for every packet size of the table.
BYTES_AT_BAUD_TO_USEC(bytes, bps, div) ==
  ((bytes + (IF div # 0 THEN 20 ELSE 15)) * 8200000) \div bps

\* A faulty getInterval: it rounds down to the millisecond.
getInterval_rounding_down(bd) ==
  LET bps == modem_bps[bd.modem_params + 1]
      div == AndMask(bd.flags, DIVERSITY_ENABLED)
      r0  == BYTES_AT_BAUD_TO_USEC(getPacketSize(bd), bps, div) + 2000
  IN  (r0 \div 1000) * 1000

getInterval(bd) ==
  LET bps == modem_bps[bd.modem_params + 1]
      div == AndMask(bd.flags, DIVERSITY_ENABLED)
      r0  == BYTES_AT_BAUD_TO_USEC(getPacketSize(bd), bps, div) + 2000
      r1  == IF AndMask(bd.flags, TELEMETRY_MASK) # 0
               THEN r0 + BYTES_AT_BAUD_TO_USEC(TELEMETRY_PACKETSIZE, bps, div) + 1000
               ELSE r0
      r2  == ((r1 + 999) \div 1000) * 1000
  IN  IF LIMIT_RATE_TO_50HZ /\ r2 < 20000 THEN 20000 ELSE r2


ByteAt(buf, i) == IF i \in 1..Len(buf) THEN buf[i] ELSE 0

\* A faulty unpackChannels: the two upper bits are not masked out of the
\* fifth byte, and the coarse step is 334.
unpackChannels_unmasked(config, PPM, p) ==
  LET groups == (config \div 2) + 1
      packed(j) ==
        LET g == (j - 1) \div 4
            k == (j - 1) % 4
        IN  ((ByteAt(p, 5 * g + 5) \div (4^k)) * 256) + ByteAt(p, 5 * g + k + 1)
      coarse(j) ==
        LET k == j - 4 * groups - 1
        IN  ((ByteAt(p, 5 * groups + 1) \div (4^(3 - k))) % 4) * 334 + 12
  IN  [j \in 1..Len(PPM) |->
         IF j <= 4 * groups THEN packed(j)
         ELSE IF (config % 2 = 1) /\ j <= 4 * groups + 4 THEN coarse(j)
         ELSE PPM[j]]

\* A faulty unpackChannels: the first coarse channel is taken from the two
\* lowest bits of the byte.
unpackChannels_low_bits_first(config, PPM, p) ==
  LET groups == (config \div 2) + 1
      packed(j) ==
        LET g == (j - 1) \div 4
            k == (j - 1) % 4
        IN  (((ByteAt(p, 5 * g + 5) \div (4^k)) % 4) * 256) + ByteAt(p, 5 * g + k + 1)
      coarse(j) ==
        LET k == j - 4 * groups - 1
        IN  ((ByteAt(p, 5 * groups + 1) \div (4^k)) % 4) * 333 + 12
  IN  [j \in 1..Len(PPM) |->
         IF j <= 4 * groups THEN packed(j)
         ELSE IF (config % 2 = 1) /\ j <= 4 * groups + 4 THEN coarse(j)
         ELSE PPM[j]]

\* A faulty unpackChannels: the loop runs for i = 0 .. config/2 - 1.
unpackChannels_half_groups(config, PPM, p) ==
  LET groups == config \div 2
      packed(j) ==
        LET g == (j - 1) \div 4
            k == (j - 1) % 4
        IN  (((ByteAt(p, 5 * g + 5) \div (4^k)) % 4) * 256) + ByteAt(p, 5 * g + k + 1)
      coarse(j) ==
        LET k == j - 4 * groups - 1
        IN  ((ByteAt(p, 5 * groups + 1) \div (4^(3 - k))) % 4) * 333 + 12
  IN  [j \in 1..Len(PPM) |->
         IF j <= 4 * groups THEN packed(j)
         ELSE IF (config % 2 = 1) /\ j <= 4 * groups + 4 THEN coarse(j)
         ELSE PPM[j]]

\* unpackChannels(config, PPM, p): p is the payload, rx_buf + 1. The loop
\* runs for i = 0 .. config/2 inclusive; a write past the end of PPM is
\* dropped here.
unpackChannels(config, PPM, p) ==
  LET groups == (config \div 2) + 1
      packed(j) ==
        LET g == (j - 1) \div 4
            k == (j - 1) % 4
        IN  (((ByteAt(p, 5 * g + 5) \div (4^k)) % 4) * 256) + ByteAt(p, 5 * g + k + 1)
      coarse(j) ==
        LET k == j - 4 * groups - 1
        IN  ((ByteAt(p, 5 * groups + 1) \div (4^(3 - k))) % 4) * 333 + 12
  IN  [j \in 1..Len(PPM) |->
         IF j <= 4 * groups THEN packed(j)
         ELSE IF (config % 2 = 1) /\ j <= 4 * groups + 4 THEN coarse(j)
         ELSE PPM[j]]

\* A faulty rfmSetCarrierFrequency: it knows the low band only.
rfmSetCarrierFrequency_low_band(f) ==
  LET fb == ((f \div 10000000) - 24) % W16
      fc == (((f - (fb + 24) * 10000000) * 4) \div 625) % W16
  IN  << (64 + (fb % 32)) % W8, (fc \div 256) % W8, fc % 256 >>

\* The three registers rfmSetCarrierFrequency writes: 0x75, 0x76, 0x77.
rfmSetCarrierFrequency(f) ==
  LET hbsel == IF f < 480000000 THEN 0 ELSE 1
      unit  == IF hbsel = 0 THEN 10000000 ELSE 20000000
      fb    == ((f \div unit) - 24) % W16
      fc    == (((f - (fb + 24) * unit) * (IF hbsel = 0 THEN 4 ELSE 2)) \div 625) % W16
  IN  << (64 + (IF hbsel = 1 THEN 32 ELSE 0) + (fb % 32)) % W8, (fc \div 256) % W8, fc % 256 >>

\* Number of hopchannel entries before the first zero, at most MAXHOPS.
HopCount(bd) ==
  LET F[n \in 0..MAXHOPS] ==
        IF n < MAXHOPS /\ bd.hopchannel[n + 1] # 0 THEN F[n + 1] ELSE n
  IN  F[0]

\* ------------------------------------------------------------------------
\* Data the environment supplies
\* ------------------------------------------------------------------------

\* openlrs.h: the bind channel's magic, as its four bytes from the most
\* significant, and its carrier.
BIND_MAGIC == <<222, 193, 190, 21>>
BINDING_FREQUENCY == 435000000

\* A hop list with n channels followed by zeros.
HopList(n) == [i \in 1..MAXHOPS |-> IF i <= n THEN 10 + i ELSE 0]

\* A hop list whose first entry is the terminator although a channel follows.
HoleList == [i \in 1..MAXHOPS |-> IF i = 2 THEN 12 ELSE 0]

\* A BindData: 125000 bps, 7-byte packets, no telemetry, no diversity.
\* rf_magic is kept as its four bytes from the most significant.
BD(ver, hops) ==
  [version |-> ver, serial_baudrate |-> 115200, rf_frequency |-> 433920000,
   rf_magic |-> <<222, 173, 190, 239>>, rf_power |-> 7, rf_channel_spacing |-> 5,
   modem_params |-> 4, flags |-> 1, hopchannel |-> hops]

\* What the persistent store may hold when the board starts: nothing usable
\* (another version), or a binding with one hop channel.
StoredBindings == { BD(BINDING_VERSION - 1, HopList(1)), BD(BINDING_VERSION, HopList(1)) }

\* What the allocated, never cleared, device record may hold in bind_data.
HeapBindData == { BD(0, HopList(0)), BD(BINDING_VERSION, HoleList) }

\* BindData a transmitter may send in a bind packet.
AirBindData ==
  { BD(BINDING_VERSION, HopList(0)), BD(BINDING_VERSION, HopList(MAXHOPS)),
    BD(BINDING_VERSION + 1, HopList(2)) }

\* The memory image of a BindData, one element per field, in the order of
\* the fields; a bind packet is 'b' followed by it.
Image(bd) ==
  << bd.version, bd.serial_baudrate, bd.rf_frequency, bd.rf_magic, bd.rf_power,
     bd.rf_channel_spacing >> \o bd.hopchannel \o << bd.modem_params, bd.flags >>

FromImage(img) ==
  [version |-> ByteAt(img, 1), serial_baudrate |-> ByteAt(img, 2),
   rf_frequency |-> ByteAt(img, 3), rf_magic |-> ByteAt(img, 4),
   rf_power |-> ByteAt(img, 5), rf_channel_spacing |-> ByteAt(img, 6),
   hopchannel |-> [i \in 1..MAXHOPS |-> ByteAt(img, 6 + i)],
   modem_params |-> ByteAt(img, 7 + MAXHOPS), flags |-> ByteAt(img, 8 + MAXHOPS)]

SizeofBindData == 8 + MAXHOPS

\* Packets heard on the bind channel: bind requests, and one that is none.
BindPackets == { <<CHAR_b>> \o Image(bd) : bd \in AirBindData } \cup { <<120, 1, 2>> }

\* Packets heard on the operational channels: a servo frame and a frame of
\* another subtype, both of the 7 bytes that flags & 7 = 1 asks for.
DataPackets == { <<0, 1, 2, 3, 4, 228, 27>>, <<56, 9, 9, 9, 9, 9, 9>> }

\* What reading past the end of the receive FIFO returns.
UnderflowBytes == {0, 255}

\* What the RSSI and AFC registers may read.
RssiValues == {80}
AfcValues == {0}


\* ------------------------------------------------------------------------
\* State
\* ------------------------------------------------------------------------

VARIABLES
  dev,          \* struct pios_openlrs_dev (valid: the record exists and its magic is set)
  st,           \* the file-scope statics of pios_openlrs.c
  radio,        \* the RFM22B: the registers and FIFOs the driver uses
  store,        \* the OpenLRS settings object of the persistent store
  now,          \* the clocks: us is micros(), a uint32_t, and ms is millis()
  pc,           \* where the driver task is
  loc,          \* locals of the task and the counters that bound the run
  exti_pending, \* the radio's interrupt line has fallen and the handler has not run yet
  spi_log,      \* bus events of the last step: "claim", "cs" (chip select asserted), "release"
  rcvr_updated  \* the last step handed a PPM vector to the registered receiver

vars == << dev, st, radio, store, now, pc, loc, exti_pending, spi_log, rcvr_updated >>

micros == now.us
millis == now.ms

\* ------------------------------------------------------------------------
\* SPI Read/Write Functions: the bus events of a call
\* ------------------------------------------------------------------------

\* n register accesses without a claim (rfm22_read, rfm22_write)
Cs(n) == [i \in 1..n |-> "cs"]

\* a claim, n register accesses, a release
Claimed(n) == <<"claim">> \o Cs(n) \o <<"release">>

rfm22_read_log == Cs(1)
rfm22_read_claim_log == Claimed(1)
rfm22_write_claim_log == Claimed(1)

\* ------------------------------------------------------------------------
\* The radio
\* ------------------------------------------------------------------------

\* Register 0x0C as init_rfm leaves it (GPIO1 is the RX state), and as a
\* reset leaves it.
GPIO1_CONFIGURED == 21

\* The state of the chip after power-on or after it has reset itself.
RadioDefault ==
  [reg0C |-> 0, pwr |-> "ready", ie1 |-> {}, ie2 |-> {"enpor"}, status |-> {"ipor"},
   rxfifo |-> <<>>, txfifo |-> <<>>, txlen |-> 0, modem |-> <<"reset">>,
   header |-> <<0, 0, 0, 0>>, txpower |-> 0, hopch |-> 0, hopstep |-> 0,
   carrier |-> <<0, 0, 0>>]

\* The interrupt line is low while an enabled interrupt source is latched.
Enabled(r) ==
  { b \in r.status : \/ (b = "ipkvalid" /\ "enpkvalid" \in r.ie1)
                     \/ (b = "ipksent" /\ "enpksent" \in r.ie1)
                     \/ (b = "ipor" /\ "enpor" \in r.ie2) }

nIRQ_low(r) == Enabled(r) # {}

\* The external interrupt is taken on the falling edge of the line.
FallingEdge(r, r2) == ~nIRQ_low(r) /\ nIRQ_low(r2)

\* ------------------------------------------------------------------------
\* OpenLRS hardware access: what each function does to the radio
\* ------------------------------------------------------------------------

rfmSetChannel(r, bd, ch) ==
  [r EXCEPT !.hopch = bd.hopchannel[ch + 1],
            !.header = [r.header EXCEPT ![4] = Xor8(bd.rf_magic[4], ch)]]

rfmSetChannel_log == Claimed(3)

\* init_rfm: reading the two status registers clears what is latched;
\* interrupt enable 2 is written, interrupt enable 1 is not.
init_rfm(r, bd, isbind) ==
  [r EXCEPT !.status = {},
            !.ie2 = {},
            !.pwr = "ready",
            !.reg0C = GPIO1_CONFIGURED,
            !.modem = IF isbind THEN <<"bind_params">> ELSE <<"modem_params", bd.modem_params>>,
            !.header = IF isbind THEN BIND_MAGIC ELSE bd.rf_magic,
            !.txpower = IF isbind THEN 6 ELSE bd.rf_power,
            !.hopch = 0,
            !.hopstep = bd.rf_channel_spacing,
            !.carrier = rfmSetCarrierFrequency(IF isbind THEN BINDING_FREQUENCY ELSE bd.rf_frequency)]

init_rfm_log == Claimed(10) \o Claimed(15) \o Claimed(26) \o Claimed(3)

\* init_rfm(0) sleeps 10 ms after each of the eight settings it prints.
InitRfmPrintMs == 80

\* to_rx_mode up to its delay(10)
to_rx_mode_ready(r) == [r EXCEPT !.status = {}, !.pwr = "ready"]

\* A faulty to_rx_mode: the bus is released after the delay(10).
to_rx_mode_log_held == <<"claim">> \o Cs(3)

to_rx_mode_log == Claimed(3)

\* A faulty rx_reset: the receiver is not switched on.
rx_reset_idle(r) ==
  [r EXCEPT !.rxfifo = <<>>, !.txfifo = <<>>, !.pwr = "ready",
            !.ie1 = {"enpkvalid"}, !.status = {}]

\* rx_reset: ready, FIFO threshold, clearFIFO, receive on, packet-valid
\* interrupt enabled, status read
rx_reset(r) ==
  [r EXCEPT !.rxfifo = <<>>, !.txfifo = <<>>, !.pwr = "rx",
            !.ie1 = {"enpkvalid"}, !.status = {}]

rx_reset_log == Claimed(1) \o Claimed(1) \o Claimed(2) \o Claimed(4)

\* tx_packet_async up to the release of the bus
tx_packet_async(r, pkt, size) ==
  [r EXCEPT !.txlen = size,
            !.txfifo = r.txfifo \o SubSeq(pkt, 1, size),
            !.ie1 = {"enpksent"},
            !.status = {},
            !.pwr = "tx"]

tx_packet_async_log(size) == Claimed(1 + size + 1 + 2 + 1)

\* n bytes read from the receive FIFO; past its end the chip returns pad
FifoRead(fifo, n, pad) == [i \in 1..n |-> IF i <= Len(fifo) THEN fifo[i] ELSE pad]

FifoRest(fifo, n) == IF n >= Len(fifo) THEN <<>> ELSE SubSeq(fifo, n + 1, Len(fifo))


\* ------------------------------------------------------------------------
\* Initial state: the board has powered up, nothing has run yet
\* ------------------------------------------------------------------------

\* The clock at start: zero, or close enough to 2^32 that micros() wraps
\* while the operational loop runs.
StartTimes ==
  { [us |-> U32(0), ms |-> 0],
    [us |-> Sub32(U32(0), U32(100000)), ms |-> 4294867] }

PPM_CHANNELS == 16

\* rx_buf holds the largest packet.
RxBufLen == 21

NoBindData == BD(0, HopList(0))

\* The device record, the statics and the task's locals before anything ran.
DevAtBoot ==
  [valid |-> FALSE, rf_mode |-> Available, rf_channel |-> 0,
   link_acquired |-> FALSE, bind_data |-> NoBindData,
   rx_buf |-> [i \in 1..RxBufLen |-> 0], ppm |-> [i \in 1..PPM_CHANNELS |-> 0],
   openlrs_rcvr_id |-> 0]

StAtBoot ==
  [hopcount |-> 0, lastPacketTimeUs |-> U32(0), numberOfLostPackets |-> 0,
   lastAFCCvalue |-> 0, linkQuality |-> 0, lastRSSITimeUs |-> U32(0),
   lastRSSIvalue |-> 0, RSSI_sum |-> 0, RSSI_count |-> 0, smoothRSSI |-> 0,
   willhop |-> FALSE, nextBeaconTimeMs |-> 0, linkLossTimeMs |-> 0,
   irqs |-> 0, tx_start |-> U32(0)]

LocAtBoot ==
  [exti |-> FALSE, bind |-> FALSE, rxb |-> 0, ret |-> 0,
   timeTemp |-> U32(0), device_type |-> 0, init_ret |-> 0,
   iter |-> 0, idle |-> 0, polls |-> 0]

InitFrom(stores, times) ==
  /\ dev = DevAtBoot
  /\ st = StAtBoot
  /\ radio = RadioDefault
  /\ store \in stores
  /\ now \in times
  /\ pc = "boot"
  /\ loc = LocAtBoot
  /\ exti_pending = FALSE
  /\ spi_log = <<>>
  /\ rcvr_updated = FALSE

Init == InitFrom(StoredBindings, StartTimes)

\* ------------------------------------------------------------------------
\* IRQ dispatcher
\* ------------------------------------------------------------------------

\* A faulty dispatcher: it knows Receive only.
EXT_Int_mode_receive_only(valid, mode) ==
  IF valid /\ mode = Receive THEN Received ELSE mode

\* The rf_mode PIOS_OpenLRS_EXT_Int leaves, for a device record that
\* validates or not.
EXT_Int_mode(valid, mode) ==
  IF ~valid THEN mode
  ELSE IF mode = Transmit THEN Transmitted
  ELSE IF mode = Receive THEN Received
  ELSE mode

\* A faulty handler: it reads the two interrupt status registers itself.
EXT_Int_reading_status ==
  /\ exti_pending
  /\ exti_pending' = FALSE
  /\ st' = [st EXCEPT !.irqs = st.irqs + 1]
  /\ dev' = [dev EXCEPT !.rf_mode = EXT_Int_mode(dev.valid, dev.rf_mode)]
  /\ radio' = [radio EXCEPT !.status = {}]
  /\ spi_log' = Claimed(2)
  /\ rcvr_updated' = FALSE
  /\ UNCHANGED << store, now, pc, loc >>

PIOS_OpenLRS_EXT_Int ==
  /\ exti_pending
  /\ exti_pending' = FALSE
  /\ st' = [st EXCEPT !.irqs = st.irqs + 1]
  /\ dev' = [dev EXCEPT !.rf_mode = EXT_Int_mode(dev.valid, dev.rf_mode)]
  /\ spi_log' = <<>>
  /\ rcvr_updated' = FALSE
  /\ UNCHANGED << radio, store, now, pc, loc >>

\* ------------------------------------------------------------------------
\* The radio as environment
\* ------------------------------------------------------------------------

\* The interrupt reaches the handler once PIOS_EXTI_Init has run.
Raises(r, r2) == loc.exti /\ FallingEdge(r, r2)

\* Where the task is when it wakes from a sleep: what the radio did while
\* it slept is there by then.
AsleepAt ==
  { "bind_init", "bind_rx_reset", "bind_wait", "bind_tx", "bind_tx_preempted",
    "bind_rearm", "bind_tx_poll",
    "setup_print", "setup_regs", "setup_rx_reset", "lockup_regs", "lockup_rx_reset",
    "loop_top" }

\* tx_packet has polled more than MaxTxPolls times: from here on the radio
\* stays silent until tx_packet has given up.
TxSilent == pc = "bind_tx_poll" /\ loc.polls > MaxTxPolls

RadioStep(r2) ==
  /\ ~exti_pending
  /\ pc \in AsleepAt
  /\ ~TxSilent
  /\ Raises(radio, r2) => st.irqs < MaxIrqs
  /\ radio' = r2
  /\ exti_pending' = Raises(radio, r2)
  /\ spi_log' = <<>>
  /\ rcvr_updated' = FALSE
  /\ UNCHANGED << dev, st, store, now, pc, loc >>

\* A packet passes the header check and the CRC while the receiver is on:
\* it is in the FIFO, packet-valid is latched, the chip falls back to ready.
RadioPacketValid ==
  /\ radio.pwr = "rx"
  /\ \E pkt \in (IF radio.modem = <<"bind_params">> THEN BindPackets ELSE DataPackets) :
       RadioStep([radio EXCEPT !.rxfifo = radio.rxfifo \o pkt,
                               !.status = radio.status \cup {"ipkvalid"},
                               !.pwr = "ready"])

\* The packet in the transmit FIFO has gone out: packet-sent is latched and
\* the chip falls back to ready. Sending takes time.
RadioPacketSent ==
  /\ radio.pwr = "tx"
  /\ micros # st.tx_start
  /\ RadioStep([radio EXCEPT !.txfifo = <<>>,
                             !.status = radio.status \cup {"ipksent"},
                             !.pwr = "ready"])

\* The chip resets itself: every register is back at its default, and the
\* power-on-reset interrupt, enabled by default, is latched.
RadioReset ==
  /\ RadioStep(RadioDefault)

\* ------------------------------------------------------------------------
\* Public facade
\* ------------------------------------------------------------------------

OPENLRS_HOPCHANNEL_NUMELEM == MAXHOPS

\* A faulty copy: the last hop channel is left out.
CopyBinding_short(from, old) ==
  [from EXCEPT !.hopchannel = [i \in 1..MAXHOPS |->
                                 IF i < MAXHOPS THEN from.hopchannel[i]
                                 ELSE old.hopchannel[i]]]

\* The field-by-field copy between bind_data and the settings object; the
\* loop copies OPENLRS_HOPCHANNEL_NUMELEM hop channels, the rest of the
\* target keeps what it held.
CopyBinding(from, old) ==
  [version |-> from.version, serial_baudrate |-> from.serial_baudrate,
   rf_frequency |-> from.rf_frequency, rf_magic |-> from.rf_magic,
   rf_power |-> from.rf_power, rf_channel_spacing |-> from.rf_channel_spacing,
   modem_params |-> from.modem_params, flags |-> from.flags,
   hopchannel |-> [i \in 1..MAXHOPS |->
                     IF i <= OPENLRS_HOPCHANNEL_NUMELEM THEN from.hopchannel[i]
                     ELSE old.hopchannel[i]]]

\* What register 0x00 may read: an RFM22B, with or without the upper bits
\* set, no chip, or another chip.
DeviceTypeReads == {8, 40, 0, 7}

RFM22_DT_MASK == 31

\* A faulty probe: whatever answers is taken for the radio.
DeviceFound_any(device_type) == TRUE

\* The probe: the masked device type is that of the RFM22B.
DeviceFound(device_type) == device_type = 8

\* PIOS_OpenLRS_Init. The device record comes from PIOS_malloc and is not
\* cleared: rf_mode, link_acquired and, unless the stored version matches,
\* bind_data hold whatever the heap held. (So does rx_buf, of which every
\* byte is written before it is read.)
PIOS_OpenLRS_Init ==
  /\ pc = "boot"
  /\ \E raw \in DeviceTypeReads, heap_bd \in HeapBindData, heap_mode \in RfModes,
        heap_acq \in BOOLEAN :
       LET device_type == AndMask(raw, RFM22_DT_MASK)
           found == DeviceFound(device_type)
       IN  /\ dev' = [dev EXCEPT
                        !.valid = TRUE,
                        !.rf_mode = heap_mode,
                        !.link_acquired = heap_acq,
                        !.openlrs_rcvr_id = 0,
                        !.bind_data = IF found /\ store.version = BINDING_VERSION
                                        THEN CopyBinding(store, heap_bd)
                                        ELSE heap_bd]
           /\ pc' = IF found THEN "task" ELSE "init_failed"
           /\ loc' = [loc EXCEPT !.exti = found, !.device_type = device_type,
                                 !.init_ret = IF found THEN 0 ELSE -1]
  /\ spi_log' = rfm22_read_log
  /\ rcvr_updated' = FALSE
  /\ UNCHANGED << st, radio, store, now, exti_pending >>

\* PIOS_OpenLRS_RegisterRcvr, called if at all by the board's
\* initialisation, before the scheduler starts the task.
PIOS_OpenLRS_RegisterRcvr ==
  /\ ~exti_pending
  /\ dev.valid
  /\ pc = "task"
  /\ dev.openlrs_rcvr_id = 0
  /\ dev' = [dev EXCEPT !.openlrs_rcvr_id = 1]
  /\ spi_log' = <<>>
  /\ rcvr_updated' = FALSE
  /\ UNCHANGED << st, radio, store, now, pc, loc, exti_pending >>


\* ------------------------------------------------------------------------
\* Driver task: start and bind listening
\* ------------------------------------------------------------------------

\* A step of the task: the handler, if due, runs first.
Task(at) == pc = at /\ ~exti_pending

Sleep(ms) == now' = [us |-> Add32(now.us, ms * 1000), ms |-> now.ms + ms]

\* The sleeps of the settings print-out after a bind packet: eight fields
\* and MAXHOPS hop channels, 10 ms each.
BindPrintMs == (8 + MAXHOPS) * 10

\* pios_openlrs_task up to the decision, and pios_openlrs_setup up to it:
\* bind listening when bind_data.version is not BINDING_VERSION.
Task_Start ==
  /\ Task("task")
  /\ dev.valid
  /\ loc' = [loc EXCEPT !.bind = (dev.bind_data.version # BINDING_VERSION)]
  /\ pc' = IF dev.bind_data.version # BINDING_VERSION THEN "bind_init" ELSE "setup_print"
  /\ Sleep(5)
  /\ spi_log' = <<>>
  /\ rcvr_updated' = FALSE
  /\ UNCHANGED << dev, st, radio, store, exti_pending >>

\* pios_openlrs_bind_receive: init_rfm(true)
Bind_InitRfm ==
  /\ Task("bind_init")
  /\ radio' = init_rfm(radio, dev.bind_data, TRUE)
  /\ spi_log' = init_rfm_log
  /\ pc' = "bind_arm"
  /\ rcvr_updated' = FALSE
  /\ UNCHANGED << dev, st, store, now, loc, exti_pending >>

\* rf_mode = Receive; to_rx_mode up to the end of its delay(10)
Bind_Arm ==
  /\ Task("bind_arm")
  /\ dev' = [dev EXCEPT !.rf_mode = Receive]
  /\ radio' = to_rx_mode_ready(radio)
  /\ spi_log' = to_rx_mode_log
  /\ Sleep(10)
  /\ pc' = "bind_rx_reset"
  /\ rcvr_updated' = FALSE
  /\ UNCHANGED << st, store, loc, exti_pending >>

\* rx_reset, at the end of to_rx_mode and after a packet that did not bind
Bind_RxReset ==
  /\ Task("bind_rx_reset")
  /\ radio' = rx_reset(radio)
  /\ spi_log' = rx_reset_log
  /\ pc' = "bind_wait"
  /\ rcvr_updated' = FALSE
  /\ UNCHANGED << dev, st, store, now, loc, exti_pending >>

\* One turn of the wait loop with nothing received: sleep 1 ms, look again.
Bind_Idle ==
  /\ Task("bind_wait")
  /\ dev.rf_mode # Received
  /\ loc.idle < MaxBindIdle
  /\ loc' = [loc EXCEPT !.idle = loc.idle + 1]
  /\ Sleep(1)
  /\ spi_log' = <<>>
  /\ rcvr_updated' = FALSE
  /\ UNCHANGED << dev, st, radio, store, pc, exti_pending >>

\* A bind_receive that stages the block and takes it over only when its
\* version is BINDING_VERSION.
BindRead_staged(bd, fifo, pad) ==
  LET staged == FromImage(FifoRead(FifoRest(fifo, 1), SizeofBindData, pad))
  IN  IF FifoRead(fifo, 1, pad)[1] = CHAR_b /\ staged.version = BINDING_VERSION
        THEN staged ELSE bd

\* What bind_receive makes of bind_data when the FIFO holds fifo: the block
\* after a leading 'b' is read straight into bind_data.
BindRead(bd, fifo, pad) ==
  IF FifoRead(fifo, 1, pad)[1] = CHAR_b
    THEN FromImage(FifoRead(FifoRest(fifo, 1), SizeofBindData, pad))
    ELSE bd

\* One turn of the wait loop with rf_mode == Received: the first byte is
\* read; after 'b' the block is read into bind_data and printed, and a
\* matching version goes on to the acknowledgement. Anything else re-arms.
Bind_Packet ==
  /\ Task("bind_wait")
  /\ dev.rf_mode = Received
  /\ \E pad \in (IF Len(radio.rxfifo) >= 1 + SizeofBindData THEN {0} ELSE UnderflowBytes) :
       LET rxb == FifoRead(radio.rxfifo, 1, pad)[1]
           bd2 == BindRead(dev.bind_data, radio.rxfifo, pad)
       IN  /\ dev' = [dev EXCEPT !.bind_data = bd2]
           /\ radio' = [radio EXCEPT !.rxfifo =
                          FifoRest(radio.rxfifo, IF rxb = CHAR_b THEN 1 + SizeofBindData ELSE 1)]
           /\ loc' = [loc EXCEPT !.rxb = rxb]
           /\ Sleep(1 + (IF rxb = CHAR_b THEN BindPrintMs ELSE 0))
           /\ pc' = IF rxb = CHAR_b /\ bd2.version = BINDING_VERSION
                      THEN "bind_tx" ELSE "bind_rearm"
  /\ spi_log' = <<"claim", "cs", "release">>
  /\ rcvr_updated' = FALSE
  /\ UNCHANGED << st, store, exti_pending >>

\* tx_packet_async(&rxb, 1) with rxb = 'B', up to the release of the bus
Bind_TxAsync ==
  /\ Task("bind_tx")
  /\ loc' = [loc EXCEPT !.rxb = CHAR_B, !.polls = 0]
  /\ radio' = tx_packet_async(radio, <<CHAR_B>>, 1)
  /\ st' = [st EXCEPT !.tx_start = micros]
  /\ spi_log' = tx_packet_async_log(1)
  /\ pc' = "bind_tx_mode"
  /\ rcvr_updated' = FALSE
  /\ UNCHANGED << dev, store, now, exti_pending >>

\* The airtime of the one-byte acknowledgement at the bind rate, in ms.
TxAirtimeMs == (BYTES_AT_BAUD_TO_USEC(1, 9600, 0) + 999) \div 1000

\* rfm22_releaseBus has given the bus to a task that waited for it: the
\* driver task is kept off the processor, the transmitter already on, and
\* comes back before the last statement of tx_packet_async.
Bind_TxPreempted ==
  /\ Task("bind_tx_mode")
  /\ Sleep(TxAirtimeMs)
  /\ pc' = "bind_tx_preempted"
  /\ spi_log' = <<>>
  /\ rcvr_updated' = FALSE
  /\ UNCHANGED << dev, st, radio, store, loc, exti_pending >>

\* the last statement of tx_packet_async
Bind_TxMode ==
  /\ pc \in {"bind_tx_mode", "bind_tx_preempted"} /\ ~exti_pending
  /\ dev' = [dev EXCEPT !.rf_mode = Transmit]
  /\ pc' = "bind_tx_poll"
  /\ spi_log' = <<>>
  /\ rcvr_updated' = FALSE
  /\ UNCHANGED << st, radio, store, now, loc, exti_pending >>

\* tx_packet's wait: sleep 1 ms while rf_mode is Transmit and less than
\* 100 ms have gone by
\* A faulty wait: it goes on for as long as rf_mode is Transmit.
Bind_TxPoll_untimed ==
  /\ Task("bind_tx_poll")
  /\ dev.rf_mode = Transmit
  /\ Sleep(1)
  /\ loc' = [loc EXCEPT !.polls = Min(loc.polls + 1, MaxTxPolls + 1)]
  /\ spi_log' = <<>>
  /\ rcvr_updated' = FALSE
  /\ UNCHANGED << dev, st, radio, store, pc, exti_pending >>

Bind_TxPoll ==
  /\ Task("bind_tx_poll")
  /\ dev.rf_mode = Transmit
  /\ Lt32(Sub32(micros, st.tx_start), TX_TIMEOUT_US)
  /\ Sleep(1)
  /\ loc' = [loc EXCEPT !.polls = Min(loc.polls + 1, MaxTxPolls + 1)]
  /\ spi_log' = <<>>
  /\ rcvr_updated' = FALSE
  /\ UNCHANGED << dev, st, radio, store, pc, exti_pending >>

Bind_TxDone ==
  /\ Task("bind_tx_poll")
  /\ ~(dev.rf_mode = Transmit /\ Lt32(Sub32(micros, st.tx_start), TX_TIMEOUT_US))
  /\ pc' = "bind_persist"
  /\ spi_log' = <<>>
  /\ rcvr_updated' = FALSE
  /\ UNCHANGED << dev, st, radio, store, now, loc, exti_pending >>

\* OpenLRSSet and UAVObjSave of a copy of bind_data; return 1
Bind_Persist ==
  /\ Task("bind_persist")
  /\ store' = CopyBinding(dev.bind_data, store)
  /\ loc' = [loc EXCEPT !.ret = 1, !.polls = 0, !.idle = 0]
  /\ pc' = "setup_print"
  /\ spi_log' = <<>>
  /\ rcvr_updated' = FALSE
  /\ UNCHANGED << dev, st, radio, now, exti_pending >>

\* after a packet that did not bind: rf_mode = Receive, then rx_reset
Bind_Rearm ==
  /\ Task("bind_rearm")
  /\ dev' = [dev EXCEPT !.rf_mode = Receive]
  /\ pc' = "bind_rx_reset"
  /\ spi_log' = <<>>
  /\ rcvr_updated' = FALSE
  /\ UNCHANGED << st, radio, store, now, loc, exti_pending >>


\* ------------------------------------------------------------------------
\* Driver task: setup for normal operation
\* ------------------------------------------------------------------------

\* init_rfm(0) starts by printing the settings, asleep for 80 ms in all
Setup_Print ==
  /\ Task("setup_print")
  /\ Sleep(InitRfmPrintMs)
  /\ pc' = "setup_regs"
  /\ spi_log' = <<>>
  /\ rcvr_updated' = FALSE
  /\ UNCHANGED << dev, st, radio, store, loc, exti_pending >>

\* the register writes of init_rfm(0); rf_channel = 0; rfmSetChannel;
\* the count of hop channels
Setup_Regs ==
  /\ Task("setup_regs")
  /\ radio' = rfmSetChannel(init_rfm(radio, dev.bind_data, FALSE), dev.bind_data, 0)
  /\ dev' = [dev EXCEPT !.rf_channel = 0]
  /\ st' = [st EXCEPT !.hopcount = HopCount(dev.bind_data)]
  /\ spi_log' = init_rfm_log \o rfmSetChannel_log
  /\ pc' = "setup_arm"
  /\ rcvr_updated' = FALSE
  /\ UNCHANGED << store, now, loc, exti_pending >>

\* rf_mode = Receive; to_rx_mode up to the end of its delay(10)
Setup_Arm ==
  /\ Task("setup_arm")
  /\ dev' = [dev EXCEPT !.rf_mode = Receive]
  /\ radio' = to_rx_mode_ready(radio)
  /\ spi_log' = to_rx_mode_log
  /\ Sleep(10)
  /\ pc' = "setup_rx_reset"
  /\ rcvr_updated' = FALSE
  /\ UNCHANGED << st, store, loc, exti_pending >>

\* rx_reset; link_acquired = 0; lastPacketTimeUs = micros()
Setup_Done ==
  /\ Task("setup_rx_reset")
  /\ radio' = rx_reset(radio)
  /\ dev' = [dev EXCEPT !.link_acquired = FALSE]
  /\ st' = [st EXCEPT !.lastPacketTimeUs = micros]
  /\ spi_log' = rx_reset_log
  /\ pc' = "loop_top"
  /\ rcvr_updated' = FALSE
  /\ UNCHANGED << store, now, loc, exti_pending >>

\* ------------------------------------------------------------------------
\* Driver task: pios_openlrs_rx_loop, one scheduler iteration
\* ------------------------------------------------------------------------

\* The lockup check: register 0x0C read, not zero. The iterations are
\* counted up to max.
LoopTop(max) ==
  /\ Task("loop_top")
  /\ loc.iter < max
  /\ radio.reg0C # 0
  /\ loc' = [loc EXCEPT !.iter = loc.iter + 1]
  /\ pc' = "loop_check"
  /\ spi_log' = rfm22_read_log
  /\ rcvr_updated' = FALSE
  /\ UNCHANGED << dev, st, radio, store, now, exti_pending >>

Loop_Top == LoopTop(MaxIter)

\* The lockup check: register 0x0C reads zero; init_rfm(0) prints first.
Loop_Lockup ==
  /\ Task("loop_top")
  /\ loc.iter < MaxIter
  /\ radio.reg0C = 0
  /\ loc' = [loc EXCEPT !.iter = loc.iter + 1]
  /\ Sleep(InitRfmPrintMs)
  /\ pc' = "lockup_regs"
  /\ spi_log' = rfm22_read_log
  /\ rcvr_updated' = FALSE
  /\ UNCHANGED << dev, st, radio, store, exti_pending >>

\* A faulty recovery: the radio is set up with the bind profile.
Lockup_Regs_bind_profile ==
  /\ Task("lockup_regs")
  /\ radio' = to_rx_mode_ready(init_rfm(radio, dev.bind_data, TRUE))
  /\ spi_log' = init_rfm_log \o to_rx_mode_log
  /\ Sleep(10)
  /\ pc' = "lockup_rx_reset"
  /\ rcvr_updated' = FALSE
  /\ UNCHANGED << dev, st, store, loc, exti_pending >>

\* the register writes of init_rfm(0); to_rx_mode up to the end of its delay(10)
Lockup_Regs ==
  /\ Task("lockup_regs")
  /\ radio' = to_rx_mode_ready(init_rfm(radio, dev.bind_data, FALSE))
  /\ spi_log' = init_rfm_log \o to_rx_mode_log
  /\ Sleep(10)
  /\ pc' = "lockup_rx_reset"
  /\ rcvr_updated' = FALSE
  /\ UNCHANGED << dev, st, store, loc, exti_pending >>

\* A faulty recovery: it starts the link over, as setup does.
Lockup_RxReset_fresh ==
  /\ Task("lockup_rx_reset")
  /\ radio' = rx_reset(radio)
  /\ dev' = [dev EXCEPT !.link_acquired = FALSE]
  /\ st' = [st EXCEPT !.linkQuality = 0, !.numberOfLostPackets = 0]
  /\ spi_log' = rx_reset_log
  /\ pc' = "loop_check"
  /\ rcvr_updated' = FALSE
  /\ UNCHANGED << store, now, loc, exti_pending >>

Lockup_RxReset ==
  /\ Task("lockup_rx_reset")
  /\ radio' = rx_reset(radio)
  /\ spi_log' = rx_reset_log
  /\ pc' = "loop_check"
  /\ rcvr_updated' = FALSE
  /\ UNCHANGED << dev, st, store, now, loc, exti_pending >>

\* linkQuality <<= 1 on a uint16_t
Shl16(x) == (2 * x) % W16

\* A faulty drain: the count of lost packets is kept.
DrainStatics_keeps_lost(s, timeTemp, afc) ==
  [s EXCEPT !.lastAFCCvalue = afc,
            !.lastPacketTimeUs = timeTemp,
            !.linkQuality = (Shl16(s.linkQuality) + 1) % W16]

\* The drain: what the statics are after a packet read at timeTemp.
DrainStatics(s, timeTemp, afc) ==
  [s EXCEPT !.lastAFCCvalue = afc,
            !.lastPacketTimeUs = timeTemp,
            !.numberOfLostPackets = 0,
            !.linkQuality = (Shl16(s.linkQuality) + 1) % W16]

\* A faulty drain: every frame is unpacked and handed on as a servo frame.
Loop_Drain_forwards_all ==
  /\ Task("loop_check")
  /\ dev.rf_mode = Received
  /\ LET size == getPacketSize(dev.bind_data)
     IN  \E pad \in (IF Len(radio.rxfifo) >= size THEN {0} ELSE UnderflowBytes),
            afc \in AfcValues :
           LET buf == [i \in 1..RxBufLen |->
                         IF i <= size THEN FifoRead(radio.rxfifo, size, pad)[i]
                         ELSE dev.rx_buf[i]]
           IN  /\ dev' = [dev EXCEPT
                            !.rx_buf = buf,
                            !.ppm = unpackChannels(dev.bind_data.flags % 8, dev.ppm, Tail(buf)),
                            !.link_acquired = TRUE]
               /\ rcvr_updated' = (dev.openlrs_rcvr_id # 0)
               /\ radio' = [radio EXCEPT !.rxfifo = FifoRest(radio.rxfifo, size)]
               /\ st' = DrainStatics(st, micros, afc)
  /\ loc' = [loc EXCEPT !.timeTemp = micros]
  /\ spi_log' = <<"claim", "cs", "release">> \o rfm22_read_claim_log \o rfm22_read_claim_log
  /\ pc' = "loop_rearm"
  /\ UNCHANGED << store, now, exti_pending >>

\* rf_mode == Received: the packet is read from the FIFO into rx_buf, the
\* AFC value is read, the reception is counted, a servo frame is unpacked
\* and handed to the receiver if one is registered, link_acquired is set.
\* The local timeTemp, the time of the read, is kept in loc.
Loop_Drain ==
  /\ Task("loop_check")
  /\ dev.rf_mode = Received
  /\ LET size == getPacketSize(dev.bind_data)
     IN  \E pad \in (IF Len(radio.rxfifo) >= size THEN {0} ELSE UnderflowBytes),
            afc \in AfcValues :
           LET buf == [i \in 1..RxBufLen |->
                         IF i <= size THEN FifoRead(radio.rxfifo, size, pad)[i]
                         ELSE dev.rx_buf[i]]
               servo == AndMask(buf[1], 62) = 0
           IN  /\ dev' = [dev EXCEPT
                            !.rx_buf = buf,
                            !.ppm = IF servo
                                      THEN unpackChannels(dev.bind_data.flags % 8, dev.ppm, Tail(buf))
                                      ELSE dev.ppm,
                            !.link_acquired = TRUE]
               /\ rcvr_updated' = (servo /\ dev.openlrs_rcvr_id # 0)
               /\ radio' = [radio EXCEPT !.rxfifo = FifoRest(radio.rxfifo, size)]
               /\ st' = DrainStatics(st, micros, afc)
  /\ loc' = [loc EXCEPT !.timeTemp = micros]
  /\ spi_log' = <<"claim", "cs", "release">> \o rfm22_read_claim_log \o rfm22_read_claim_log
  /\ pc' = "loop_rearm"
  /\ UNCHANGED << store, now, exti_pending >>

\* A faulty re-arm: it starts the acquisition over.
Loop_Rearm_reacquire ==
  /\ Task("loop_rearm")
  /\ dev' = [dev EXCEPT !.rf_mode = Receive, !.link_acquired = FALSE]
  /\ pc' = "loop_rx_reset"
  /\ spi_log' = <<>>
  /\ rcvr_updated' = FALSE
  /\ UNCHANGED << st, radio, store, now, loc, exti_pending >>

Loop_Rearm ==
  /\ Task("loop_rearm")
  /\ dev' = [dev EXCEPT !.rf_mode = Receive]
  /\ pc' = "loop_rx_reset"
  /\ spi_log' = <<>>
  /\ rcvr_updated' = FALSE
  /\ UNCHANGED << st, radio, store, now, loc, exti_pending >>

\* rx_reset; willhop = 1
Loop_RxReset ==
  /\ Task("loop_rx_reset")
  /\ radio' = rx_reset(radio)
  /\ st' = [st EXCEPT !.willhop = TRUE]
  /\ spi_log' = rx_reset_log
  /\ pc' = "loop_sched"
  /\ rcvr_updated' = FALSE
  /\ UNCHANGED << dev, store, now, loc, exti_pending >>

\* A faulty test: the iteration goes on without looking at rf_mode.
Loop_NoPacket_blind ==
  /\ Task("loop_check")
  /\ pc' = "loop_sched"
  /\ spi_log' = <<>>
  /\ rcvr_updated' = FALSE
  /\ UNCHANGED << dev, st, radio, store, now, loc, exti_pending >>

\* rf_mode is not Received: on to the rest of the iteration
Loop_NoPacket ==
  /\ Task("loop_check")
  /\ dev.rf_mode # Received
  /\ pc' = "loop_sched"
  /\ spi_log' = <<>>
  /\ rcvr_updated' = FALSE
  /\ UNCHANGED << dev, st, radio, store, now, loc, exti_pending >>


\* A faulty sampling: it goes on however many packets are lost.
SampleRssi_any_loss(s, bd, timeUs, rssi) ==
  IF /\ s.lastRSSITimeUs # s.lastPacketTimeUs
     /\ Gt32(Sub32(timeUs, s.lastPacketTimeUs), getInterval(bd) - RSSI_LEAD_US)
    THEN LET sum == (s.RSSI_sum + rssi) % W16
             cnt == (s.RSSI_count + 1) % W8
             avg == sum \div cnt
         IN  IF cnt > 8
               THEN [s EXCEPT !.lastRSSITimeUs = s.lastPacketTimeUs,
                              !.lastRSSIvalue = rssi,
                              !.smoothRSSI = ((s.smoothRSSI * 3 + avg) \div 4) % W8,
                              !.RSSI_sum = 0,
                              !.RSSI_count = 0]
               ELSE [s EXCEPT !.lastRSSITimeUs = s.lastPacketTimeUs,
                              !.lastRSSIvalue = rssi,
                              !.RSSI_sum = sum,
                              !.RSSI_count = cnt]
    ELSE s

\* "sample RSSI when packet is in the 'air'"
SampleRssi(s, bd, timeUs, rssi) ==
  IF /\ s.numberOfLostPackets < 2
     /\ s.lastRSSITimeUs # s.lastPacketTimeUs
     /\ Gt32(Sub32(timeUs, s.lastPacketTimeUs), getInterval(bd) - RSSI_LEAD_US)
    THEN LET sum == (s.RSSI_sum + rssi) % W16
             cnt == (s.RSSI_count + 1) % W8
             avg == sum \div cnt
         IN  IF cnt > 8
               THEN [s EXCEPT !.lastRSSITimeUs = s.lastPacketTimeUs,
                              !.lastRSSIvalue = rssi,
                              !.smoothRSSI = ((s.smoothRSSI * 3 + avg) \div 4) % W8,
                              !.RSSI_sum = 0,
                              !.RSSI_count = 0]
               ELSE [s EXCEPT !.lastRSSITimeUs = s.lastPacketTimeUs,
                              !.lastRSSIvalue = rssi,
                              !.RSSI_sum = sum,
                              !.RSSI_count = cnt]
    ELSE s

\* A faulty test: a miss is due whenever fewer than hopcount are lost.
MissDue_untimed(s, bd, timeUs) == s.numberOfLostPackets < s.hopcount

\* A faulty test: a packet is taken for lost as soon as the interval is over.
MissDue_no_slack(s, bd, timeUs) ==
  /\ s.numberOfLostPackets < s.hopcount
  /\ Gt32(Sub32(timeUs, s.lastPacketTimeUs), getInterval(bd))

\* A miss is due: fewer than hopcount lost so far and the packet is more
\* than the slack late.
MissDue(s, bd, timeUs) ==
  /\ s.numberOfLostPackets < s.hopcount
  /\ Gt32(Sub32(timeUs, s.lastPacketTimeUs), getInterval(bd) + LOSS_SLACK_US)

\* A faulty test: search mode hops again after one interval.
SearchDue_per_interval(s, bd, timeUs) ==
  /\ s.numberOfLostPackets = s.hopcount
  /\ Gt32(Sub32(timeUs, s.lastPacketTimeUs), getInterval(bd))

\* Search mode is due: hopcount packets lost and a whole round gone by.
SearchDue(s, bd, timeUs) ==
  /\ s.numberOfLostPackets = s.hopcount
  /\ Gt32(Sub32(timeUs, s.lastPacketTimeUs), getInterval(bd) * s.hopcount)

\* A faulty record: the expected time of the packet goes back an interval.
RecordMiss_rewind(s, bd, timeMs) ==
  [s EXCEPT !.linkQuality = Shl16(s.linkQuality),
            !.willhop = TRUE,
            !.numberOfLostPackets = s.numberOfLostPackets + 1,
            !.lastPacketTimeUs = Sub32(s.lastPacketTimeUs, U32(getInterval(bd)))]

\* A faulty record: the time of the loss is taken at every miss.
RecordMiss_every_snapshot(s, bd, timeMs) ==
  [s EXCEPT !.linkQuality = Shl16(s.linkQuality),
            !.willhop = TRUE,
            !.linkLossTimeMs = timeMs,
            !.nextBeaconTimeMs = 0,
            !.numberOfLostPackets = s.numberOfLostPackets + 1,
            !.lastPacketTimeUs = Add32(s.lastPacketTimeUs, getInterval(bd))]

\* A faulty miss: the expected time moves on by two intervals.
RecordMiss_two_intervals(s, bd, timeMs) ==
  [s EXCEPT !.linkQuality = Shl16(s.linkQuality),
            !.willhop = TRUE,
            !.linkLossTimeMs = IF s.numberOfLostPackets = 0 THEN timeMs ELSE s.linkLossTimeMs,
            !.nextBeaconTimeMs = IF s.numberOfLostPackets = 0 THEN 0 ELSE s.nextBeaconTimeMs,
            !.numberOfLostPackets = s.numberOfLostPackets + 1,
            !.lastPacketTimeUs = Add32(s.lastPacketTimeUs, 2 * getInterval(bd))]

RecordMiss(s, bd, timeMs) ==
  [s EXCEPT !.linkQuality = Shl16(s.linkQuality),
            !.willhop = TRUE,
            !.linkLossTimeMs = IF s.numberOfLostPackets = 0 THEN timeMs ELSE s.linkLossTimeMs,
            !.nextBeaconTimeMs = IF s.numberOfLostPackets = 0 THEN 0 ELSE s.nextBeaconTimeMs,
            !.numberOfLostPackets = s.numberOfLostPackets + 1,
            !.lastPacketTimeUs = Add32(s.lastPacketTimeUs, getInterval(bd))]

\* A faulty entry: the RSSI average survives.
EnterSearch_keeps_rssi(s, timeUs) ==
  [s EXCEPT !.linkQuality = 0,
            !.willhop = TRUE,
            !.smoothRSSI = s.smoothRSSI + 1,
            !.lastPacketTimeUs = timeUs]

EnterSearch(s, timeUs) ==
  [s EXCEPT !.linkQuality = 0,
            !.willhop = TRUE,
            !.smoothRSSI = 0,
            !.lastPacketTimeUs = timeUs]

\* A faulty slow hop: lastPacketTimeUs is left as it was.
SlowHop_no_reset(s, bd, timeUs) ==
  IF Gt32(Sub32(timeUs, s.lastPacketTimeUs), getInterval(bd) * s.hopcount)
    THEN [s EXCEPT !.willhop = TRUE]
    ELSE s

\* "Waiting for first packet, hop slowly"
SlowHop(s, bd, timeUs) ==
  IF Gt32(Sub32(timeUs, s.lastPacketTimeUs), getInterval(bd) * s.hopcount)
    THEN [s EXCEPT !.lastPacketTimeUs = timeUs, !.willhop = TRUE]
    ELSE s

\* The loss and slow-hop logic of an iteration.
LossLogic(s, acquired, bd, timeUs, timeMs) ==
  IF acquired
    THEN IF MissDue(s, bd, timeUs) THEN RecordMiss(s, bd, timeMs)
         ELSE IF SearchDue(s, bd, timeUs) THEN EnterSearch(s, timeUs)
         ELSE s
    ELSE SlowHop(s, bd, timeUs)

\* A faulty hop: it wraps at MAXHOPS only and goes on past the terminator.
NextChannel_past_terminator(ch, bd) ==
  LET n == (ch + 1) % W8
  IN  IF n = MAXHOPS THEN 0 ELSE n

\* rf_channel++ and the wrap to 0 at MAXHOPS or at the terminator
NextChannel(ch, bd) ==
  LET n == (ch + 1) % W8
  IN  IF n = MAXHOPS THEN 0
      ELSE IF bd.hopchannel[n + 1] = 0 THEN 0
      ELSE n

\* The rest of the iteration: RSSI, loss logic, the hop; then the task
\* sleeps 1 ms.
Loop_Sched ==
  /\ Task("loop_sched")
  /\ \E rssi \in RssiValues :
       LET s1 == SampleRssi(st, dev.bind_data, micros, rssi)
           s2 == LossLogic(s1, dev.link_acquired, dev.bind_data, micros, millis)
           ch == IF s2.willhop THEN NextChannel(dev.rf_channel, dev.bind_data)
                 ELSE dev.rf_channel
       IN  /\ st' = [s2 EXCEPT !.willhop = FALSE]
           /\ dev' = [dev EXCEPT !.rf_channel = ch]
           /\ radio' = IF s2.willhop THEN rfmSetChannel(radio, dev.bind_data, ch) ELSE radio
           /\ spi_log' = (IF s1 # st THEN rfm22_read_claim_log ELSE <<>>)
                         \o (IF s2.willhop THEN rfmSetChannel_log ELSE <<>>)
  /\ Sleep(1)
  /\ pc' = "loop_top"
  /\ rcvr_updated' = FALSE
  /\ UNCHANGED << store, loc, exti_pending >>

\* ------------------------------------------------------------------------
\* The system
\* ------------------------------------------------------------------------

Next ==
  \/ PIOS_OpenLRS_Init
  \/ PIOS_OpenLRS_RegisterRcvr
  \/ PIOS_OpenLRS_EXT_Int
  \/ RadioPacketValid
  \/ RadioPacketSent
  \/ RadioReset
  \/ Task_Start
  \/ Bind_InitRfm
  \/ Bind_Arm
  \/ Bind_RxReset
  \/ Bind_Idle
  \/ Bind_Packet
  \/ Bind_TxAsync
  \/ Bind_TxPreempted
  \/ Bind_TxMode
  \/ Bind_TxPoll
  \/ Bind_TxDone
  \/ Bind_Persist
  \/ Bind_Rearm
  \/ Setup_Print
  \/ Setup_Regs
  \/ Setup_Arm
  \/ Setup_Done
  \/ Loop_Top
  \/ Loop_Lockup
  \/ Lockup_Regs
  \/ Lockup_RxReset
  \/ Loop_Drain
  \/ Loop_Rearm
  \/ Loop_RxReset
  \/ Loop_NoPacket
  \/ Loop_Sched

Spec == Init /\ [][Next]_vars

\* ------------------------------------------------------------------------
\* The link over a longer run: the board starts on a stored binding with
\* one hop channel, two, or a full hop list, the radio receives packets and
\* does not reset itself, and MaxLinkIter scheduler iterations are followed.
\* ------------------------------------------------------------------------

LinkBindings ==
  { BD(BINDING_VERSION, HopList(1)), BD(BINDING_VERSION, HopList(2)),
    BD(BINDING_VERSION, HopList(MAXHOPS)) }

LinkInit == InitFrom(LinkBindings, { [us |-> U32(0), ms |-> 0] })

Link_Top == LoopTop(MaxLinkIter)

LinkNext ==
  \/ PIOS_OpenLRS_Init
  \/ PIOS_OpenLRS_EXT_Int
  \/ RadioPacketValid
  \/ Task_Start
  \/ Setup_Print
  \/ Setup_Regs
  \/ Setup_Arm
  \/ Setup_Done
  \/ Link_Top
  \/ Loop_Drain
  \/ Loop_Rearm
  \/ Loop_RxReset
  \/ Loop_NoPacket
  \/ Loop_Sched

LinkSpec == LinkInit /\ [][LinkNext]_vars

\* What runs on the board without the help of a transmitter: the start-up,
\* the interrupt handler, and the task, which FreeRTOS runs again when its
\* sleep is over.
LinkRun ==
  \/ PIOS_OpenLRS_Init
  \/ PIOS_OpenLRS_EXT_Int
  \/ Task_Start
  \/ Setup_Print
  \/ Setup_Regs
  \/ Setup_Arm
  \/ Setup_Done
  \/ Link_Top
  \/ Loop_Drain
  \/ Loop_Rearm
  \/ Loop_RxReset
  \/ Loop_NoPacket
  \/ Loop_Sched

\* The same run with the task and the handler scheduled fairly; whether a
\* packet arrives is left open.
LinkFairSpec == LinkSpec /\ WF_vars(LinkRun)

\* ------------------------------------------------------------------------
\* The link across the wrap of micros(): the board starts 110 ms before
\* the microsecond clock passes 2^32, so the wrap falls into the middle of
\* the MaxLinkIter iterations.
\* ------------------------------------------------------------------------

WrapStart == [us |-> Sub32(U32(0), U32(110000)), ms |-> 4294857]

WrapInit == InitFrom(LinkBindings, { WrapStart })

WrapSpec == WrapInit /\ [][LinkNext]_vars

\* ------------------------------------------------------------------------
\* The search for a transmitter that is off, on a slow binding, with a
\* lockup check that misfires: rfm22_read does not claim the bus, so the
\* read of register 0x0C can fall into the transfer of another task and
\* come back 0 from a radio that has its configuration and has raised no
\* interrupt; a module that has locked up without resetting reads the same.
\* MaxMisreadIter scheduler iterations are followed.
\* ------------------------------------------------------------------------

MaxMisreadIter == 34

\* A binding at 4800 bps with a full hop list: a round of the slow hop
\* takes longer than init_rfm and to_rx_mode do.
SlowBinding ==
  [BD(BINDING_VERSION, HopList(MAXHOPS)) EXCEPT !.modem_params = 0]

MisreadInit == InitFrom({ SlowBinding }, { [us |-> U32(0), ms |-> 0] })

Misread_Top == LoopTop(MaxMisreadIter)

\* The lockup check reads 0 although the register holds its value;
\* init_rfm(0) prints first.
Loop_LockupMisread ==
  /\ Task("loop_top")
  /\ loc.iter < MaxMisreadIter
  /\ radio.reg0C # 0
  /\ loc' = [loc EXCEPT !.iter = loc.iter + 1]
  /\ Sleep(InitRfmPrintMs)
  /\ pc' = "lockup_regs"
  /\ spi_log' = rfm22_read_log
  /\ rcvr_updated' = FALSE
  /\ UNCHANGED << dev, st, radio, store, exti_pending >>

MisreadNext ==
  \/ PIOS_OpenLRS_Init
  \/ Task_Start
  \/ Setup_Print
  \/ Setup_Regs
  \/ Setup_Arm
  \/ Setup_Done
  \/ Misread_Top
  \/ Loop_LockupMisread
  \/ Lockup_Regs
  \/ Lockup_RxReset
  \/ Loop_NoPacket
  \/ Loop_Sched

MisreadSpec == MisreadInit /\ [][MisreadNext]_vars

\* ------------------------------------------------------------------------
\* The formatting utilities and the carrier synthesis on their own: each is
\* called once on an input drawn from a set.
\* ------------------------------------------------------------------------

\* Every packet size selector, telemetry setting, diversity setting and
\* row of modem_params.
IntervalInputs ==
  { [BD(BINDING_VERSION, HopList(1)) EXCEPT !.flags = size + tel + div, !.modem_params = mp] :
      size \in 0..7, tel \in {0, 8, 16, 24}, div \in {0, DIVERSITY_ENABLED},
      mp \in 0..(Len(modem_bps) - 1) }

\* Byte values that put every pattern of two bits at every place of a byte.
SampleBytes == {0, 27, 85, 170, 228, 255}

\* A servo frame for the selector config: the subtype byte, then groups of
\* four low bytes lo and a fifth byte hi, and the byte co where the frame's
\* coarse channels are.
ServoFrame(config, lo, hi, co) ==
  [i \in 1..RxBufLen |->
     IF i = 1 THEN 0
     ELSE IF i - 1 = 5 * ((config \div 2) + 1) + 1 THEN co
     ELSE IF (i - 1) % 5 = 0 THEN hi
     ELSE lo]

\* A servo frame whose bytes differ from place to place.
RampFrame(base) ==
  [i \in 1..RxBufLen |-> IF i = 1 THEN 0 ELSE (base + 37 * i) % W8]

\* The device record before a servo frame is unpacked: no channel value
\* has been written yet.
UnpackInputs ==
  { [DevAtBoot EXCEPT !.bind_data = [BD(BINDING_VERSION, HopList(1)) EXCEPT !.flags = config],
                      !.rx_buf = ServoFrame(config, lo, hi, co),
                      !.ppm = [i \in 1..PPM_CHANNELS |-> -1]] :
      config \in 1..6, lo \in SampleBytes, hi \in SampleBytes, co \in SampleBytes }
  \cup
  { [DevAtBoot EXCEPT !.bind_data = [BD(BINDING_VERSION, HopList(1)) EXCEPT !.flags = config],
                      !.rx_buf = RampFrame(base),
                      !.ppm = [i \in 1..PPM_CHANNELS |-> -1]] :
      config \in 1..6, base \in SampleBytes }

\* Carriers: the ends of the two bands, the band edge, and frequencies in
\* use, the bind channel's among them.
CarrierInputs ==
  { 240000000, 433000000, 433920000, BINDING_FREQUENCY, 459990000, 479999999,
    480000000, 915000000, 959990000 }

\* RSSI readings: the ends of the register's range and a value in between.
RssiSamples == {0, 80, 255}

\* A time of the last packet shortly before micros() wraps.
LateTime == [h |-> W16 - 1, l |-> W16 - 1000]

\* The statics where an iteration samples the RSSI: up to eight readings
\* of one value accumulated, a smoothed value, up to three packets lost, a
\* reading taken or not yet taken for this lastPacketTimeUs.
RssiInputs ==
  { [StAtBoot EXCEPT !.hopcount = 1, !.lastPacketTimeUs = LateTime,
                     !.RSSI_count = n, !.RSSI_sum = n * v, !.lastRSSIvalue = v,
                     !.smoothRSSI = sm, !.numberOfLostPackets = lost,
                     !.lastRSSITimeUs = IF taken THEN LateTime ELSE U32(0)] :
      n \in 0..8, v \in RssiSamples, sm \in RssiSamples, lost \in 0..3,
      taken \in BOOLEAN }

\* The time since lastPacketTimeUs at the sampling: up to the lead before
\* the next packet, just past it, and an interval later.
RssiDelays ==
  LET lead == getInterval(BD(BINDING_VERSION, HopList(1))) - RSSI_LEAD_US
  IN  { lead - 1000, lead, lead + 1, lead + 1000 }

FnInit ==
  /\ radio = RadioDefault
  /\ store = NoBindData
  /\ loc = LocAtBoot
  /\ exti_pending = FALSE
  /\ spi_log = <<>>
  /\ rcvr_updated = FALSE
  /\ \/ /\ pc = "call_getInterval"
        /\ st = StAtBoot /\ now = [us |-> U32(0), ms |-> 0]
        /\ \E bd \in IntervalInputs : dev = [DevAtBoot EXCEPT !.bind_data = bd]
     \/ /\ pc = "call_unpackChannels"
        /\ st = StAtBoot /\ now = [us |-> U32(0), ms |-> 0]
        /\ dev \in UnpackInputs
     \/ /\ pc = "call_rfmSetCarrierFrequency"
        /\ st = StAtBoot /\ now = [us |-> U32(0), ms |-> 0]
        /\ \E f \in CarrierInputs :
             dev = [DevAtBoot EXCEPT !.bind_data.rf_frequency = f]
     \/ /\ pc = "call_sampleRssi"
        /\ st \in RssiInputs
        /\ \E d \in RssiDelays : now = [us |-> Add32(LateTime, d), ms |-> 0]
        /\ dev = [DevAtBoot EXCEPT !.bind_data = BD(BINDING_VERSION, HopList(1))]

\* ret = getInterval(&openlrs_dev->bind_data)
Call_getInterval ==
  /\ pc = "call_getInterval"
  /\ loc' = [loc EXCEPT !.ret = getInterval(dev.bind_data)]
  /\ pc' = "ret_getInterval"
  /\ UNCHANGED << dev, st, radio, store, now, exti_pending, spi_log, rcvr_updated >>

\* unpackChannels(bind_data.flags & 7, ppm, rx_buf + 1)
Call_unpackChannels ==
  /\ pc = "call_unpackChannels"
  /\ dev' = [dev EXCEPT !.ppm = unpackChannels(dev.bind_data.flags % 8, dev.ppm, Tail(dev.rx_buf))]
  /\ pc' = "ret_unpackChannels"
  /\ UNCHANGED << st, radio, store, now, loc, exti_pending, spi_log, rcvr_updated >>

\* rfmSetCarrierFrequency(openlrs_dev, bind_data.rf_frequency)
Call_rfmSetCarrierFrequency ==
  /\ pc = "call_rfmSetCarrierFrequency"
  /\ radio' = [radio EXCEPT !.carrier = rfmSetCarrierFrequency(dev.bind_data.rf_frequency)]
  /\ spi_log' = Claimed(3)
  /\ pc' = "ret_rfmSetCarrierFrequency"
  /\ UNCHANGED << dev, st, store, now, loc, exti_pending, rcvr_updated >>

\* the RSSI sampling of an iteration, on the statics
Call_sampleRssi ==
  /\ pc = "call_sampleRssi"
  /\ \E rssi \in RssiSamples : st' = SampleRssi(st, dev.bind_data, micros, rssi)
  /\ spi_log' = (IF st' # st THEN rfm22_read_claim_log ELSE <<>>)
  /\ pc' = "ret_sampleRssi"
  /\ UNCHANGED << dev, radio, store, now, loc, exti_pending, rcvr_updated >>

FnNext ==
  \/ Call_getInterval
  \/ Call_unpackChannels
  \/ Call_rfmSetCarrierFrequency
  \/ Call_sampleRssi

FnSpec == FnInit /\ [][FnNext]_vars

\* ------------------------------------------------------------------------
\* Properties
\* ------------------------------------------------------------------------

\* A step of the interrupt handler.
IrqStep == exti_pending /\ ~exti_pending'

\* Where the task is while pios_openlrs_rx_loop runs or sleeps between runs.
LoopPcs ==
  { "loop_top", "lockup_regs", "lockup_rx_reset", "loop_check", "loop_rearm",
    "loop_rx_reset", "loop_sched" }

\* C1: the interrupt handler changes rf_mode only from Transmit to
\* Transmitted and from Receive to Received; any other rf_mode, and the
\* rf_mode of a record that does not validate, is left as it is.
C1_IrqModeTransitions ==
  [][IrqStep =>
       dev'.rf_mode = CASE dev.valid /\ dev.rf_mode = Transmit -> Transmitted
                        [] dev.valid /\ dev.rf_mode = Receive -> Received
                        [] OTHER -> dev.rf_mode]_vars

\* The handler has run on a transmission: rf_mode is Transmitted.
C1_Witness == st.irqs > 0 /\ dev.rf_mode = Transmitted /\ pc = "bind_tx_poll"

\* C2 as stated: the handler changes rf_mode and nothing else of the
\* driver's state, and does nothing on the bus.
C2_IrqOnlyRfMode ==
  [][IrqStep =>
       /\ dev' = [dev EXCEPT !.rf_mode = dev'.rf_mode]
       /\ st' = st
       /\ radio' = radio /\ store' = store
       /\ spi_log' = <<>>]_vars

\* C2: the handler changes rf_mode and counts the interrupt in irqs; the
\* other statics, the rest of the device record, the radio and the store
\* are unchanged, and the handler does nothing on the bus, no claim and no
\* transfer.
C2_IrqFrame ==
  [][IrqStep =>
       /\ dev' = [dev EXCEPT !.rf_mode = dev'.rf_mode]
       /\ st' = [st EXCEPT !.irqs = st.irqs + 1]
       /\ radio' = radio /\ store' = store
       /\ spi_log' = <<>>]_vars

\* The handler has just run on a reception in the operational loop.
C2_Witness ==
  /\ st.irqs > 0 /\ dev.rf_mode = Received /\ ~exti_pending
  /\ pc = "loop_top" /\ spi_log = <<>> /\ radio.rxfifo # <<>>

\* C3: in the operational loop, link_acquired once true stays true,
\* whatever the task, the handler and the radio do next.
C3_LinkAcquiredSticky ==
  [][(pc \in LoopPcs /\ dev.link_acquired) => dev'.link_acquired]_vars

\* The link was acquired, a packet was then missed, and the radio has been
\* set up again after a lockup.
C3_Witness ==
  /\ dev.link_acquired /\ st.numberOfLostPackets > 0
  /\ pc = "lockup_rx_reset"

\* The number of entries of a hop list before its first zero.
LeadingNonZero(h) == Cardinality({ n \in 1..Len(h) : \A i \in 1..n : h[i] # 0 })

\* C4 as stated, for a BindData that was read from the store or bound and
\* persisted: after setup and at the end of every scheduler iteration,
\* rf_channel is below the hop count, the number of hopchannel entries
\* before the first zero, which is at most MAXHOPS.
C4_ChannelBelowHopCount ==
  (pc = "loop_top" /\ dev.bind_data = store) =>
    /\ dev.rf_channel < LeadingNonZero(dev.bind_data.hopchannel)
    /\ LeadingNonZero(dev.bind_data.hopchannel) <= MAXHOPS

\* Where the task is inside pios_openlrs_bind_receive.
BindPcs ==
  { "bind_init", "bind_arm", "bind_rx_reset", "bind_wait", "bind_tx", "bind_tx_mode",
    "bind_tx_preempted",
    "bind_tx_poll", "bind_persist", "bind_rearm" }

\* A step of bind_receive that looks at a received packet.
BindPacketStep ==
  pc = "bind_wait" /\ ~exti_pending /\ dev.rf_mode = Received /\ pc' # pc

\* A step of bind_receive that looks at a received packet that is 'b'
\* followed by the BindData bd.
BindPacketOf(bd) == BindPacketStep /\ radio.rxfifo = <<98>> \o Image(bd)

C6_LastPacketTimeForward ==
  [][(pc \in LoopPcs) =>
       Sub32(st'.lastPacketTimeUs, st.lastPacketTimeUs).h < 2^15]_vars

C8_BindVersionMismatch ==
  [][/\ \A bd \in AirBindData :
          (BindPacketOf(bd) /\ bd.version # BINDING_VERSION) =>
             /\ pc' = "bind_rearm" /\ store' = store
             /\ radio'.txfifo = <<>> /\ radio'.pwr # "tx"
     /\ (pc = "bind_rearm" /\ pc' # pc) =>
          /\ dev'.rf_mode = Receive /\ pc' = "bind_rx_reset"
          /\ store' = store /\ radio' = radio
     /\ (pc = "bind_rx_reset" /\ pc' # pc) =>
          /\ radio'.pwr = "rx" /\ "enpkvalid" \in radio'.ie1
          /\ pc' = "bind_wait" /\ store' = store
     /\ (pc \in BindPcs \ {"bind_persist"}) => store' = store /\ pc' \in BindPcs]_vars

\* A BindData of another version came in, and bind_receive listens again.
C8_Witness ==
  /\ pc = "bind_wait" /\ dev.rf_mode = Receive /\ radio.pwr = "rx"
  /\ dev.bind_data.version = BINDING_VERSION + 1 /\ st.irqs = 1
  /\ store.version # BINDING_VERSION

\* C9 as stated: after a 'b' packet whose BindData is of another version,
\* bind_data is what it was.
C9_BindDataKeptOnMismatch ==
  [][\A bd \in AirBindData :
       (BindPacketOf(bd) /\ bd.version # BINDING_VERSION) =>
          dev'.bind_data = dev.bind_data]_vars

\* C9: there is no staging buffer. The block after 'b' is read into
\* bind_data itself, so bind_data is the received BindData after any 'b'
\* packet, whatever its version; a packet that does not start with 'b'
\* leaves bind_data as it was.
C9_BindDataOverwritten ==
  [][/\ \A bd \in AirBindData : BindPacketOf(bd) => dev'.bind_data = bd
     /\ (BindPacketStep /\ (radio.rxfifo = <<>> \/ Head(radio.rxfifo) # 98)) =>
          dev'.bind_data = dev.bind_data]_vars

\* bind_data holds the BindData of another version that just came in.
C9_Witness ==
  /\ pc = "bind_rearm" /\ dev.bind_data = BD(BINDING_VERSION + 1, HopList(2))
  /\ store.version # BINDING_VERSION

\* C10 as stated: the task goes to bind listening exactly when the version
\* in the store is not BINDING_VERSION, and the operational loop never runs
\* on a bind_data of another version.
C10_BindIffStoredVersion ==
  /\ [][(pc = "task" /\ pc' # pc) =>
          ((pc' = "bind_init") <=> (store.version # BINDING_VERSION))]_vars
  /\ [](pc \in LoopPcs => dev.bind_data.version = BINDING_VERSION)

\* The clock has wrapped and a recorded miss has carried lastPacketTimeUs
\* across the wrap.
C6_Witness ==
  /\ now.ms > 4294867 /\ st.lastPacketTimeUs.h = 0
  /\ st.numberOfLostPackets = 1 /\ dev.link_acquired /\ pc = "loop_top"

\* Where the task is in pios_openlrs_setup after bind listening, if any.
SetupPcs == { "setup_print", "setup_regs", "setup_arm", "setup_rx_reset" }

\* C11: once the task is past bind listening it stays in setup and then in
\* the operational loop, and once it is in the loop it stays there: no step
\* takes it back into bind_receive, and no step of the loop, the lockup
\* recovery included, programs the radio with the bind profile.
C11_NoReturnToBind ==
  [][/\ (pc \in SetupPcs \cup LoopPcs) => pc' \in SetupPcs \cup LoopPcs
     /\ (pc \in LoopPcs) =>
          /\ pc' \in LoopPcs
          /\ radio'.modem # <<"bind_params">>
          /\ radio'.header # BIND_MAGIC
          /\ radio'.carrier # rfmSetCarrierFrequency(BINDING_FREQUENCY)]_vars

\* The engine bound, went on to the loop, and is in its third iteration
\* with the radio on the operational profile.
C11_Witness ==
  /\ loc.ret = 1 /\ pc = "loop_sched" /\ loc.iter = 3
  /\ radio.modem = <<"modem_params", dev.bind_data.modem_params>>

\* The bus is claimed at position i of a log of bus events: more claims
\* than releases come before it.
BusClaimedAt(log, i) ==
  Cardinality({ k \in 1..(i - 1) : log[k] = "claim" })
    > Cardinality({ k \in 1..(i - 1) : log[k] = "release" })

\* C12 as stated: every chip-select assertion of every step, in init,
\* setup, bind listening and the scheduler iterations with their lockup
\* check, comes while the driver holds the bus claim.
C12_EveryTransferClaimed ==
  \A i \in 1..Len(spi_log) : spi_log[i] = "cs" => BusClaimedAt(spi_log, i)

\* A step of the task in the wait of tx_packet: it sleeps or it returns.
TxWaitStep == pc = "bind_tx_poll" /\ ~exti_pending /\ (pc' # pc \/ now' # now)

\* C13: tx_packet returns. While rf_mode is Transmit and less than 100 ms
\* have gone by since the transmission started, a step of the wait sleeps
\* 1 ms and changes nothing else of the driver; in any other case, rf_mode
\* no longer Transmit or the 100 ms over, the step returns, changing
\* neither rf_mode nor anything else, so after the expiry rf_mode is still
\* Transmit and the caller goes on as after a transmission. The wait is
\* never found more than 100 ms after the start, so it sleeps at most 100
\* times, whether or not a packet-sent interrupt arrives.
C13_TxPacketReturns ==
  /\ [](pc = "bind_tx_poll" => ~Gt32(Sub32(now.us, st.tx_start), 100000))
  /\ [][TxWaitStep =>
          IF dev.rf_mode = Transmit /\ Lt32(Sub32(now.us, st.tx_start), 100000)
            THEN /\ pc' = pc /\ now'.us = Add32(now.us, 1000)
                 /\ dev' = dev /\ st' = st /\ radio' = radio /\ store' = store
            ELSE /\ pc' = "bind_persist" /\ now' = now
                 /\ dev' = dev /\ st' = st /\ radio' = radio /\ store' = store
                 /\ loc'.ret = loc.ret]_vars

\* tx_packet has given up after 100 ms without an interrupt: it has
\* returned with rf_mode still Transmit and the transmitter still on.
C13_Witness ==
  /\ pc = "bind_persist" /\ dev.rf_mode = Transmit /\ radio.pwr = "tx"
  /\ Sub32(now.us, st.tx_start) = U32(100000)

\* Where the task is inside the lockup branch of an iteration.
LockupPcs == { "lockup_regs", "lockup_rx_reset" }

\* The link history and the hop position are the same after the step.
HistoryKept ==
  /\ st'.linkQuality = st.linkQuality /\ st'.smoothRSSI = st.smoothRSSI
  /\ st'.RSSI_sum = st.RSSI_sum /\ st'.RSSI_count = st.RSSI_count
  /\ st'.lastRSSIvalue = st.lastRSSIvalue
  /\ st'.numberOfLostPackets = st.numberOfLostPackets
  /\ dev'.link_acquired = dev.link_acquired /\ dev'.rf_channel = dev.rf_channel

\* The registers of the radio hold the operational profile of bd.
OperationalProfile(r, bd) ==
  /\ r.reg0C # 0
  /\ r.modem = <<"modem_params", bd.modem_params>>
  /\ r.header = bd.rf_magic /\ r.txpower = bd.rf_power
  /\ r.hopstep = bd.rf_channel_spacing
  /\ r.carrier = rfmSetCarrierFrequency(bd.rf_frequency)

\* C14: an iteration that reads 0 from register 0x0C takes the lockup
\* branch; the branch writes the whole operational profile of bind_data to
\* the radio and then switches the receiver on with the packet-valid
\* interrupt enabled, keeping the profile; and from the read to the end of
\* the branch linkQuality, smoothRSSI, the RSSI accumulators, the count of
\* lost packets, link_acquired and rf_channel stay as they were.
C14_LockupKeepsHistory ==
  [][/\ (pc = "loop_top" /\ ~exti_pending /\ radio.reg0C = 0 /\ pc' # pc) =>
          pc' = "lockup_regs" /\ HistoryKept /\ radio' = radio
     /\ (pc \in LockupPcs) =>
          HistoryKept /\ pc' \in LockupPcs \cup {"loop_check"}
     /\ (pc = "lockup_regs" /\ pc' # pc) =>
          /\ OperationalProfile(radio', dev.bind_data)
          /\ radio'.status = {} /\ pc' = "lockup_rx_reset"
     /\ (pc = "lockup_rx_reset" /\ pc' # pc) =>
          /\ radio'.pwr = "rx" /\ radio'.ie1 = {"enpkvalid"} /\ radio'.rxfifo = <<>>
          /\ OperationalProfile(radio, dev.bind_data)
                => OperationalProfile(radio', dev.bind_data)
          /\ pc' = "loop_check"]_vars

\* The radio reset itself on an acquired link with a packet counted and
\* one missed; the lockup branch has set it up again and it receives.
C14_Witness ==
  /\ pc = "loop_check" /\ radio.pwr = "rx" /\ radio.hopch = 0
  /\ dev.bind_data = store /\ store.hopchannel[dev.rf_channel + 1] # 0
  /\ OperationalProfile(radio, dev.bind_data)
  /\ dev.link_acquired /\ st.linkQuality = 2 /\ st.numberOfLostPackets = 1

\* A step of the rest of an iteration, on an acquired link.
SchedStep == pc = "loop_sched" /\ pc' # pc /\ dev.link_acquired

\* The time since the last packet was read, and since lastPacketTimeUs.
SinceReception == Sub32(now.us, loc.timeTemp)

SinceExpected == Sub32(now.us, st.lastPacketTimeUs)

\* The step enters search mode.
SearchEntry ==
  /\ SchedStep /\ st.lastPacketTimeUs # now.us
  /\ st'.lastPacketTimeUs = now.us

InSearchMode ==
  dev.link_acquired /\ st.numberOfLostPackets = st.hopcount /\ st.linkQuality = 0

\* C16 as stated: an iteration in search mode that runs more than one
\* packet interval after the last hop advances rf_channel by one channel.
C16_SearchHopPerInterval ==
  [][(SchedStep /\ InSearchMode /\ Gt32(SinceExpected, getInterval(dev.bind_data))) =>
       dev'.rf_channel = NextChannel(dev.rf_channel, dev.bind_data)]_vars

\* C16: in search mode with no packet arriving the receiver advances
\* rf_channel by one channel, back to 0 after the last of the hop list,
\* once per interval * hop_count microseconds: the iteration that runs more
\* than that after the last hop makes the next one, tunes the radio to the
\* new channel and restarts the count; an iteration before that leaves
\* rf_channel, the radio and lastPacketTimeUs as they are. Either way the
\* engine stays in search mode.
C16_SearchHopPerRound ==
  [][(SchedStep /\ InSearchMode /\ ~st.willhop) =>
       IF Gt32(SinceExpected, getInterval(dev.bind_data) * st.hopcount)
         THEN /\ dev'.rf_channel = NextChannel(dev.rf_channel, dev.bind_data)
              /\ radio'.hopch = dev.bind_data.hopchannel[dev'.rf_channel + 1]
              /\ st'.lastPacketTimeUs = now.us
              /\ InSearchMode'
         ELSE /\ dev'.rf_channel = dev.rf_channel /\ radio' = radio
              /\ st'.lastPacketTimeUs = st.lastPacketTimeUs
              /\ InSearchMode']_vars

\* A link with two hop channels was lost, search mode was entered, and a
\* second slow hop, a whole round after the entry, has just been made.
C16_Witness ==
  /\ pc = "loop_top" /\ InSearchMode /\ st.hopcount = 2 /\ dev.rf_channel = 1
  /\ Sub32(now.us, st.lastPacketTimeUs) = U32(1000)
  /\ Gt32(SinceReception, 3 * getInterval(dev.bind_data) * st.hopcount)

\* C17: when the masked device type read at init is not 0x08, init returns
\* an error without initialising the interrupt and without creating the
\* task; nothing of the driver runs afterwards: no step of the task, no
\* scheduler iteration, no interrupt, no access to the radio or the store.
\* When it is 0x08 init returns 0 and the task is there.
C17_ProbeFailureStopsEngine ==
  /\ [][(pc = "boot" /\ pc' # pc) =>
          /\ (loc'.device_type # 8) => (pc' = "init_failed" /\ loc'.init_ret = -1)
          /\ (loc'.device_type = 8) => (pc' = "task" /\ loc'.init_ret = 0)]_vars
  /\ [][(pc = "init_failed") => UNCHANGED vars]_vars
  /\ []((pc # "boot" /\ loc.device_type # 8) =>
          /\ pc = "init_failed" /\ ~loc.exti /\ loc.iter = 0
          /\ st.irqs = 0 /\ radio = RadioDefault)

\* Init found another chip and has returned its error.
C17_Witness ==
  pc = "init_failed" /\ loc.device_type = 7 /\ loc.init_ret = -1 /\ ~loc.exti

\* C18: for every packet size selector, telemetry and diversity setting and
\* row of modem_params, getInterval returns a multiple of 1000 microseconds
\* that is at least the time on air of the packet plus 2000, and at least
\* that of the packet and the telemetry packet plus 3000 when telemetry is
\* on; the products stay below 2^32 (8200000 is 125 * 2^16 + 8000, so the
\* upper half of n * 8200000 is n * 125 plus a carry) and the sums below
\* 2^31, so nothing wraps on 32 bits.
C18_IntervalRoundedUp ==
  (pc = "ret_getInterval") =>
    LET bd     == dev.bind_data
        bps    == <<4800, 9600, 19200, 57600, 125000>>[bd.modem_params + 1]
        pad    == IF bd.flags >= 128 THEN 20 ELSE 15
        size   == <<0, 7, 11, 12, 16, 17, 21, 0>>[(bd.flags % 8) + 1]
        onair  == ((size + pad) * 8200000) \div bps
        telem  == ((9 + pad) * 8200000) \div bps
        telemOn == (bd.flags \div 8) % 4 # 0
    IN  /\ loc.ret % 1000 = 0
        /\ loc.ret >= onair + 2000
        /\ telemOn => loc.ret >= onair + 2000 + telem + 1000
        /\ loc.ret < onair + 2000 + (IF telemOn THEN telem + 1000 ELSE 0) + 1000
        /\ (size + pad) * 125 + ((size + pad) * 8000) \div 65536 < 65536
        /\ (9 + pad) * 125 + ((9 + pad) * 8000) \div 65536 < 65536
        /\ loc.ret <= 2147483647 - 999

\* getInterval has returned for the slowest modem row with the largest
\* packet, telemetry and diversity.
C18_Witness ==
  /\ pc = "ret_getInterval" /\ dev.bind_data.modem_params = 0
  /\ dev.bind_data.flags = 6 + 24 + 128 /\ loc.ret = 123000

\* C19: after unpackChannels on a servo frame with selector 1 to 6, the
\* first 4 * (selector / 2 + 1) entries of ppm, which are at least
\* 4 * ceil(selector / 2), are 10-bit values in 0..1023; with an odd
\* selector the next four are coarse values in 12..1011; and no other
\* entry of ppm is written.
C19_UnpackedChannelRanges ==
  (pc = "ret_unpackChannels") =>
    LET config == dev.bind_data.flags % 8
        packed == 4 * ((config \div 2) + 1)
        coarse == IF config % 2 = 1 THEN 4 ELSE 0
    IN  /\ packed >= 4 * ((config + 1) \div 2)
        /\ packed + coarse <= Len(dev.ppm)
        /\ \A j \in 1..Len(dev.ppm) :
             IF j <= packed THEN dev.ppm[j] \in 0..1023
             ELSE IF j <= packed + coarse THEN dev.ppm[j] \in 12..1011
             ELSE dev.ppm[j] = -1

\* A frame with selector 5 was unpacked: twelve 10-bit channels, the last
\* at full scale, and four coarse ones at their ends of scale.
C19_Witness ==
  /\ pc = "ret_unpackChannels" /\ dev.bind_data.flags = 5
  /\ dev.ppm[12] = 1023 /\ dev.ppm[13] = 12 /\ dev.ppm[14] = 345
  /\ dev.ppm[15] = 678 /\ dev.ppm[16] = 1011

\* C20: rfmSetCarrierFrequency sets the band-select bit hbsel of register
\* 0x75 exactly when the carrier is 480 MHz or more, with sbsel set; the
\* frequency the chip makes of the three registers,
\* 10 MHz * (hbsel + 1) * (fb + 24 + fc / 64000), is the carrier to within
\* 625 Hz in the low band and 1250 Hz in the high band, and never above it;
\* and for 433.92 MHz the registers are 0x53, 0x62, 0x00.
C20_CarrierRegisters ==
  (pc = "ret_rfmSetCarrierFrequency") =>
    LET f     == dev.bind_data.rf_frequency
        r     == radio.carrier
        hbsel == (r[1] \div 32) % 2
        fb    == r[1] % 32
        fc    == r[2] * 256 + r[3]
        scale == IF hbsel = 0 THEN 4 ELSE 2
        made  == 40000000 * (fb + 24) + 625 * fc
    IN  /\ (hbsel = 0) <=> (f < 480000000)
        /\ r[1] \div 64 = 1
        /\ scale * f - made \in 0..(scale * (IF hbsel = 0 THEN 625 ELSE 1250))
        /\ (f = 433920000) => r = <<83, 98, 0>>

\* The registers for 915 MHz have been written: high band, fb = 21,
\* fc = 48000.
C20_Witness ==
  /\ pc = "ret_rfmSetCarrierFrequency" /\ dev.bind_data.rf_frequency = 915000000
  /\ radio.carrier = <<117, 187, 128>>

\* The link as a drain leaves it: acquired, nothing lost, the last bit of
\* linkQuality set, lastPacketTimeUs the time taken at the drain.
Drained(d, s, l) ==
  /\ d.link_acquired /\ s.numberOfLostPackets = 0
  /\ s.linkQuality % 2 = 1 /\ s.lastPacketTimeUs = l.timeTemp

MissCondition ==
  /\ st.numberOfLostPackets < st.hopcount
  /\ Gt32(SinceExpected, getInterval(dev.bind_data) + LOSS_SLACK_US)

\* The step records a miss.
MissRecorded ==
  /\ st'.linkQuality = (2 * st.linkQuality) % W16
  /\ st'.numberOfLostPackets = st.numberOfLostPackets + 1
  /\ st'.lastPacketTimeUs = Add32(st.lastPacketTimeUs, getInterval(dev.bind_data))
  /\ st'.linkLossTimeMs = IF st.numberOfLostPackets = 0 THEN millis ELSE st.linkLossTimeMs
  /\ dev'.rf_channel = NextChannel(dev.rf_channel, dev.bind_data)
  /\ radio'.hopch = dev.bind_data.hopchannel[dev'.rf_channel + 1]
  /\ ~st'.willhop

\* C22: on an acquired link the loss logic of an iteration records a miss
\* exactly when numberOfLostPackets < hopcount and timeUs - lastPacketTimeUs
\* > interval + 1000. Recording shifts a 0 into linkQuality, adds one to
\* numberOfLostPackets, adds the interval to lastPacketTimeUs, hops once,
\* and takes linkLossTimeMs only when numberOfLostPackets was 0. Otherwise
\* the count and the loss time stay. So on a hop list that is not empty,
\* an iteration that runs more than interval + 1000 us and at most
\* 2 * interval + 1000 us after the last reception ends with
\* numberOfLostPackets = 1.
C22_MissRecordedExactlyWhenDue ==
  [][SchedStep =>
       /\ MissCondition => MissRecorded
       /\ ~MissCondition =>
            /\ st'.numberOfLostPackets = st.numberOfLostPackets
            /\ st'.linkLossTimeMs = st.linkLossTimeMs
            /\ st'.linkQuality \in {st.linkQuality, 0}
            /\ st'.lastPacketTimeUs \in {st.lastPacketTimeUs, micros}
       /\ (/\ st.hopcount >= 1
           /\ Gt32(SinceReception, getInterval(dev.bind_data) + LOSS_SLACK_US)
           /\ ~Gt32(SinceReception, 2 * getInterval(dev.bind_data) + LOSS_SLACK_US))
            => st'.numberOfLostPackets = 1]_vars

\* Two packets in a row were missed on a link of two channels: the second
\* miss is counted a whole interval after the first, and the loss time is
\* still that of the first.
C22_Witness ==
  /\ pc = "loop_top" /\ dev.link_acquired /\ st.numberOfLostPackets = 2
  /\ st.linkQuality = 4 /\ st.linkLossTimeMs # 0
  /\ millis - st.linkLossTimeMs > 1
  /\ st.lastPacketTimeUs = Add32(loc.timeTemp, 2 * getInterval(dev.bind_data))

\* A slow hop is due at the loss logic of an iteration.
SlowHopCondition ==
  Gt32(SinceExpected, getInterval(dev.bind_data) * st.hopcount)

\* Iterations enough for a round of the hop list to go by.
RoundIterations == (getInterval(dev.bind_data) * st.hopcount) \div 1000 + 3

\* The task is asleep after an iteration that has made a slow hop: the
\* radio listens on the channel rf_channel names.
JustHopped ==
  /\ pc = "loop_top" /\ st.lastPacketTimeUs = Sub32(micros, U32(1000))
  /\ radio.hopch = dev.bind_data.hopchannel[dev.rf_channel + 1] /\ radio.pwr = "rx"

CyclicNext(ch, hops) ==
  IF ch + 1 = MAXHOPS THEN 0
  ELSE IF hops[ch + 2] = 0 THEN 0
  ELSE ch + 1

\* C24: in the operational loop rf_channel is an index below MAXHOPS and
\* changes only at the end of an iteration. There an iteration either
\* leaves rf_channel and the radio alone or hops: rf_channel becomes
\* rf_channel + 1, or 0 when that equals MAXHOPS or names a zero entry of
\* hopchannel, and rfmSetChannel writes the hopchannel entry and the
\* header byte of the new index to the radio. So successive hops go
\* through the hop list in cyclic order, and hopchannel is read below
\* MAXHOPS only.
C24_HopsCyclic ==
  [][(pc \in LoopPcs) =>
       /\ dev.rf_channel \in 0..(MAXHOPS - 1)
       /\ dev'.rf_channel \in 0..(MAXHOPS - 1)
       /\ (pc # "loop_sched" \/ pc' = pc) => dev'.rf_channel = dev.rf_channel
       /\ (pc = "loop_sched" /\ pc' # pc) =>
            \/ dev'.rf_channel = dev.rf_channel /\ radio' = radio
            \/ /\ dev'.rf_channel = CyclicNext(dev.rf_channel, dev.bind_data.hopchannel)
               /\ radio'.hopch = dev.bind_data.hopchannel[dev'.rf_channel + 1]
               /\ radio'.header[4] = Xor8(dev.bind_data.rf_magic[4], dev'.rf_channel)]_vars

\* On a full hop list a packet was received on the first channel and the
\* next two were missed: the hops have gone through the list and, at
\* MAXHOPS, back to the first channel.
C24_Witness ==
  /\ pc = "loop_top" /\ HopCount(dev.bind_data) = MAXHOPS
  /\ dev.link_acquired /\ st.linkQuality = 4 /\ st.numberOfLostPackets = 2
  /\ dev.rf_channel = 0 /\ radio.hopch = dev.bind_data.hopchannel[1]
  /\ radio.header[4] = dev.bind_data.rf_magic[4]

\* C25: in the operational loop the interrupt handler touches neither the
\* radio nor the bus; once rf_mode is Received the next step of the task
\* from the top of the loop is the register read of the next iteration,
\* the iteration's test finds Received and reads the FIFO over the bus,
\* and the step after sets rf_mode back to Receive. With the task
\* scheduled fairly, rf_mode == Received in the loop leads to the FIFO
\* drained and rf_mode == Receive, as long as the run has an iteration
\* left: rf_mode does not stay Received.
C25_ReceivedIsDrained ==
  /\ [][/\ (IrqStep /\ pc \in LoopPcs) =>
            radio' = radio /\ spi_log' = <<>> /\ pc' = pc
        /\ (pc = "loop_top" /\ dev.rf_mode = Received /\ pc' # pc) =>
            pc' \in {"loop_check", "lockup_regs"} /\ dev'.rf_mode = Received
        /\ (pc = "loop_check" /\ dev.rf_mode = Received /\ pc' # pc) =>
            /\ pc' = "loop_rearm" /\ loc'.timeTemp = micros
            /\ \E i \in 1..Len(spi_log') : BusClaimedAt(spi_log', i)
            /\ Len(radio'.rxfifo) <= Len(radio.rxfifo)
        /\ (pc = "loop_rearm" /\ pc' # pc) =>
            pc' = "loop_rx_reset" /\ dev'.rf_mode = Receive]_vars
  /\ (/\ pc \in LoopPcs /\ dev.rf_mode = Received
      /\ pc = "loop_top" => loc.iter < MaxLinkIter)
       ~> (dev.rf_mode = Receive /\ pc = "loop_rx_reset" /\ loc.timeTemp = micros)

\* The second packet of a link has raised its interrupt and the task has
\* drained it and set rf_mode back: the packet-valid status is still
\* latched in the radio, for the task's rx_reset to read.
C25_Witness ==
  /\ pc = "loop_rx_reset" /\ dev.rf_mode = Receive /\ loc.timeTemp = micros
  /\ st.irqs = 2 /\ st.linkQuality = 3 /\ "ipkvalid" \in radio.status
  /\ radio.rxfifo = <<>>

\* The step drains a packet.
DrainStep == pc = "loop_check" /\ dev.rf_mode = Received /\ pc' # pc

\* The frame in rx_buf after the step is a servo frame: bits 1 to 5 of its
\* first byte are 0.
ServoDrained == (dev'.rx_buf[1] \div 2) % 32 = 0

\* C26: a drained packet whose first byte has a bit of 0x3E set is counted
\* as a reception (linkQuality gets a 1, numberOfLostPackets is 0,
\* link_acquired is true) but leaves the ppm vector as it was and is not
\* handed to the receiver; the receiver is handed the ppm vector exactly by
\* the drain of a servo frame while a receiver is registered, and no other
\* step changes the ppm vector.
C26_OnlyServoFramesForwarded ==
  [][/\ (DrainStep /\ ~ServoDrained) =>
          /\ dev'.ppm = dev.ppm /\ ~rcvr_updated'
          /\ dev'.link_acquired /\ st'.numberOfLostPackets = 0
          /\ st'.linkQuality = ((2 * st.linkQuality) % W16) + 1
     /\ rcvr_updated' <=> (DrainStep /\ ServoDrained /\ dev.openlrs_rcvr_id # 0)
     /\ dev'.ppm # dev.ppm => (DrainStep /\ ServoDrained)]_vars

\* With a receiver registered, a servo frame was drained and then a frame
\* of another subtype: that one is counted, the channels are still those
\* of the servo frame, and the receiver has not been called.
C26_Witness ==
  /\ pc = "loop_rearm" /\ dev.openlrs_rcvr_id # 0 /\ ~rcvr_updated
  /\ dev.rx_buf[1] = 56 /\ st.linkQuality = 3 /\ dev.link_acquired
  /\ dev.ppm[1] # 0

\* The RSSI sampling runs, and the test it makes.
RssiStep == pc = "call_sampleRssi" /\ pc' = "ret_sampleRssi"

RssiDue ==
  /\ st.lastRSSITimeUs # st.lastPacketTimeUs
  /\ Gt32(SinceExpected, getInterval(dev.bind_data) - RSSI_LEAD_US)

\* The step takes a reading: the new one is in lastRSSIvalue.
RssiSampled == st'.lastRSSITimeUs # st.lastRSSITimeUs

\* The step averages n readings, the new one among them, and starts over.
RssiAveraged(n) ==
  /\ st'.smoothRSSI =
       (3 * st.smoothRSSI + (st.RSSI_sum + st'.lastRSSIvalue) \div n) \div 4
  /\ st'.RSSI_sum = 0 /\ st'.RSSI_count = 0

RssiAccumulated ==
  /\ st'.smoothRSSI = st.smoothRSSI
  /\ st'.RSSI_sum = st.RSSI_sum + st'.lastRSSIvalue
  /\ st'.RSSI_count = st.RSSI_count + 1

\* C27 as stated: a reading is taken only when numberOfLostPackets < 2,
\* and the reading that makes eight is averaged with the seven before it
\* into smoothRSSI = (3 * smoothRSSI + average) / 4, sum and count going
\* back to 0.
C27_AverageOfEight ==
  [][RssiStep =>
       /\ RssiSampled => st.numberOfLostPackets < 2
       /\ RssiSampled =>
            IF st.RSSI_count + 1 = 8 THEN RssiAveraged(8) ELSE RssiAccumulated]_vars

\* C27: a reading is taken exactly when numberOfLostPackets < 2, none has
\* been taken for this lastPacketTimeUs, and timeUs - lastPacketTimeUs >
\* interval - 1500; the reading that makes nine is averaged with the eight
\* before it into smoothRSSI = (3 * smoothRSSI + average) / 4, sum and
\* count going back to 0; a reading before that is added to the sum and
\* counted; without a reading the statics stay.
C27_AverageOfNine ==
  [][RssiStep =>
       /\ RssiSampled <=> (st.numberOfLostPackets < 2 /\ RssiDue)
       /\ RssiSampled =>
            /\ st'.lastRSSITimeUs = st.lastPacketTimeUs
            /\ IF st.RSSI_count + 1 = 9 THEN RssiAveraged(9) ELSE RssiAccumulated
       /\ ~RssiSampled => st' = st]_vars

\* Eight readings of 80 were in the sum and the ninth read 255: the
\* average of the nine, 99, has gone into smoothRSSI with three parts of
\* the 80 it held.
C27_Witness ==
  /\ pc = "ret_sampleRssi" /\ st.lastRSSIvalue = 255 /\ st.RSSI_count = 0
  /\ st.RSSI_sum = 0 /\ st.smoothRSSI = 84 /\ st.numberOfLostPackets = 1
  /\ st.lastRSSITimeUs = st.lastPacketTimeUs

\* After unpackChannels: the selector, and the entry of ppm that group g
\* (from 0) and place k (0 to 3) of the payload make, the payload being
\* rx_buf from its second byte.
UnpackSelector == dev.bind_data.flags % 8

TenBit(g, k) ==
  ((dev.rx_buf[5 * g + 6] \div (4^k)) % 4) * 256 + dev.rx_buf[5 * g + k + 2]

\* ppm holds n groups of four 10-bit channels and no further one: past
\* them there are the coarse channels of an odd selector and entries that
\* were never written.
TenBitGroups(n) ==
  /\ \A g \in 0..(n - 1), k \in 0..3 : dev.ppm[4 * g + k + 1] = TenBit(g, k)
  /\ \A j \in (4 * n + 1)..Len(dev.ppm) :
       \/ dev.ppm[j] = -1
       \/ UnpackSelector % 2 = 1 /\ j <= 4 * n + 4 /\ (dev.ppm[j] - 12) % 333 = 0

\* C28 as stated: unpackChannels decodes exactly (flags & 7) / 2 groups of
\* five bytes into four 10-bit channels each,
\* ch_k = (((byte4 >> 2k) & 3) << 8) | byte_k, and writes no other 10-bit
\* channel.
C28_HalfSelectorGroups ==
  (pc = "ret_unpackChannels") => TenBitGroups(UnpackSelector \div 2)

\* C28: unpackChannels decodes exactly (flags & 7) / 2 + 1 groups of five
\* bytes into four 10-bit channels each,
\* ch_k = (((byte4 >> 2k) & 3) << 8) | byte_k, and writes no other 10-bit
\* channel.
C28_HalfSelectorPlusOneGroups ==
  (pc = "ret_unpackChannels") => TenBitGroups((UnpackSelector \div 2) + 1)

\* A frame with selector 2 and bytes that all differ was unpacked: two
\* groups, eight channels, the ninth entry never written.
C28_Witness ==
  /\ pc = "ret_unpackChannels" /\ UnpackSelector = 2
  /\ dev.rx_buf[7] # dev.rx_buf[8] /\ dev.rx_buf[6] # dev.rx_buf[11]
  /\ dev.ppm[5] = TenBit(1, 0) /\ dev.ppm[8] = TenBit(1, 3)
  /\ dev.ppm[8] > 255 /\ dev.ppm[9] = -1

\* After unpackChannels: the byte after the 10-bit groups, and the first
\* entry of ppm after theirs.
CoarseByte == dev.rx_buf[5 * ((UnpackSelector \div 2) + 1) + 2]

CoarseBase == 4 * ((UnpackSelector \div 2) + 1)

\* C29 as stated: with an odd selector the byte after the groups gives four
\* coarse channels ch_k = ((byte >> 2k) & 3) * 333 + 12, k = 0..3: the
\* first comes from the two lowest bits.
C29_CoarseLowBitsFirst ==
  (pc = "ret_unpackChannels" /\ UnpackSelector % 2 = 1) =>
    \A k \in 0..3 :
      dev.ppm[CoarseBase + k + 1] = ((CoarseByte \div (4^k)) % 4) * 333 + 12

\* C29: with an odd selector the byte after the groups gives four coarse
\* channels ch_k = ((byte >> (6 - 2k)) & 3) * 333 + 12, k = 0..3: the first
\* comes from the two highest bits, the last from the two lowest.
C29_CoarseHighBitsFirst ==
  (pc = "ret_unpackChannels" /\ UnpackSelector % 2 = 1) =>
    \A k \in 0..3 :
      dev.ppm[CoarseBase + k + 1] = ((CoarseByte \div (4^(3 - k))) % 4) * 333 + 12

\* A frame with selector 3 was unpacked whose last byte is 0xE4, the bit
\* pairs 3, 2, 1, 0 from the top: the coarse channels go down from full
\* scale.
C29_Witness ==
  /\ pc = "ret_unpackChannels" /\ UnpackSelector = 3 /\ CoarseByte = 228
  /\ dev.ppm[9] = 1011 /\ dev.ppm[10] = 678 /\ dev.ppm[11] = 345 /\ dev.ppm[12] = 12
  /\ dev.ppm[13] = -1

\* A step that runs the register writes of init_rfm.
InitRfmStep == pc \in {"bind_init", "setup_regs", "lockup_regs"} /\ pc' # pc

\* C30 as stated: when init_rfm has run, for bind or for normal operation
\* and whatever the radio did before, the acknowledgement of a bind
\* included, the interrupt enable registers 0x05 and 0x06 are both zero;
\* they stay so through to_rx_mode up to its rx_reset.
C30_InitRfmDisablesAll ==
  [][/\ InitRfmStep => radio'.ie1 = {} /\ radio'.ie2 = {}
     /\ (pc \in {"bind_arm", "setup_arm"} /\ pc' # pc) =>
          radio'.ie1 = radio.ie1 /\ radio'.ie2 = radio.ie2]_vars

\* Where the task is from the switching on of the transmitter to the end of
\* tx_packet's wait.
TxPcs == { "bind_tx_mode", "bind_tx_preempted", "bind_tx_poll" }

\* C31 as stated: a packet-sent interrupt that the radio raises once
\* tx_packet_async has switched the transmitter on is taken with rf_mode
\* going to Transmitted, wherever the task is; so tx_packet does not come
\* to the end of its 100 ms with rf_mode still Transmit when the packet
\* has been sent.
C31_PacketSentSeen ==
  [][/\ (IrqStep /\ pc \in TxPcs /\ "ipksent" \in radio.status) =>
          dev'.rf_mode = Transmitted
     /\ (pc = "bind_tx_poll" /\ pc' = "bind_persist" /\ "ipksent" \in radio.status) =>
          dev.rf_mode = Transmitted]_vars

\* C32 as stated: a drain in the operational loop finds in the FIFO a
\* whole packet, one the radio has validated since the FIFO was last
\* cleared; no reception is counted and link_acquired is not set on a FIFO
\* that rx_reset or the radio has emptied.
C32_DrainReadsPacket ==
  [][DrainStep => Len(radio.rxfifo) >= getPacketSize(dev.bind_data)]_vars

\* The radio r is tuned to the channel of index ch of the hop list of bd.
TunedTo(r, bd, ch) ==
  /\ r.hopch = bd.hopchannel[ch + 1]
  /\ r.header[4] = Xor8(bd.rf_magic[4], ch)

\* C33 as stated: when an iteration ends on a radio that has its
\* configuration, the radio is tuned to rf_channel: the hop channel select
\* register holds hopchannel[rf_channel] and the last byte of the transmit
\* and check headers is the low byte of rf_magic XOR rf_channel, also when
\* the iteration has run the lockup recovery. The recovery writes 0 and
\* the plain rf_magic and leaves the retuning to a hop, which a slow
\* binding does not make in the same iteration.
C33_TunedAtIterationEnd ==
  [][(pc = "loop_sched" /\ pc' = "loop_top" /\ radio'.reg0C # 0) =>
       TunedTo(radio', dev'.bind_data, dev'.rf_channel)]_vars

\* last is not later than t on the uint32_t clock: t - last is below 2^31.
NotLater(last, t) == Sub32(t, last).h < 2^15

\* C34: when the scheduler compares elapsed time, lastPacketTimeUs is not
\* later than timeUs, also across the wrap of micros(); the loss logic
\* leaves it not later than timeUs, and a recorded miss leaves it more
\* than 1000 us before timeUs, so timeUs - lastPacketTimeUs never
\* underflows.
C34_LastPacketNotLater ==
  /\ [](pc = "loop_sched" => NotLater(st.lastPacketTimeUs, micros))
  /\ [][(pc = "loop_sched" /\ pc' = "loop_top") =>
          /\ NotLater(st'.lastPacketTimeUs, micros)
          /\ st'.numberOfLostPackets > st.numberOfLostPackets =>
               Gt32(Sub32(micros, st'.lastPacketTimeUs), LOSS_SLACK_US)]_vars

\* A miss was recorded across the wrap: the clock has passed 2^32 and the
\* expected time of the lost packet has not.
C34_Witness ==
  /\ pc = "loop_top" /\ dev.link_acquired
  /\ st.numberOfLostPackets >= 1
  /\ st.lastPacketTimeUs.h = W16 - 1
  /\ now.us.h = 0

\* lastPacketTimeUs is the time of the last drain plus one interval for
\* each packet counted lost since.
PhaseLocked(s, t, bd) ==
  s.lastPacketTimeUs = Add32(t, s.numberOfLostPackets * getInterval(bd))

\* The step records a miss on an acquired link.
MissStep ==
  /\ pc = "loop_sched" /\ pc' = "loop_top" /\ dev.link_acquired
  /\ st'.numberOfLostPackets = st.numberOfLostPackets + 1

\* C35: during consecutive losses the hop schedule stays phase-locked to
\* the last reception, drained at t = timeTemp: numberOfLostPackets never
\* exceeds hopcount; while it is below hopcount, and after each recorded
\* miss, lastPacketTimeUs = t + numberOfLostPackets * interval; and the
\* k-th miss is recorded only when timeUs > t + k * interval + 1000.
C35_PhaseLocked ==
  /\ [](st.numberOfLostPackets <= st.hopcount)
  /\ []((/\ dev.link_acquired /\ pc \in {"loop_top", "loop_check", "loop_sched"}
          /\ st.numberOfLostPackets < st.hopcount)
           => PhaseLocked(st, loc.timeTemp, dev.bind_data))
  /\ [][MissStep =>
          /\ PhaseLocked(st', loc.timeTemp, dev.bind_data)
          /\ Gt32(Sub32(micros, loc.timeTemp),
                  st'.numberOfLostPackets * getInterval(dev.bind_data) + LOSS_SLACK_US)]_vars

\* Two packets in a row were lost on a link of more than two channels: the
\* expected time is two intervals after the drain.
C35_Witness ==
  /\ pc = "loop_top" /\ dev.link_acquired
  /\ st.hopcount > 2 /\ st.numberOfLostPackets = 2
  /\ st.lastPacketTimeUs = Add32(loc.timeTemp, 2 * getInterval(dev.bind_data))

\* The number of claims less the number of releases among the first i
\* events of a log.
HeldAfter(log, i) ==
  Cardinality({ k \in 1..i : log[k] = "claim" })
    - Cardinality({ k \in 1..i : log[k] = "release" })

\* C36: the bus claims of every step of init_rfm, to_rx_mode, rx_reset,
\* tx_packet_async, bind_receive and the scheduler iteration are balanced
\* and never nested: a claim comes only while the bus is not held, a
\* release only while it is, and when the step ends, where the task
\* sleeps or returns, the bus is released.
C36_ClaimsBalanced ==
  /\ \A i \in 0..Len(spi_log) : HeldAfter(spi_log, i) \in {0, 1}
  /\ HeldAfter(spi_log, Len(spi_log)) = 0

\* The drain of a packet has claimed and released the bus three times: for
\* the FIFO and for the two AFC registers.
C36_Witness ==
  /\ pc = "loop_rearm"
  /\ Cardinality({ k \in 1..Len(spi_log) : spi_log[k] = "claim" }) = 3
  /\ Cardinality({ k \in 1..Len(spi_log) : spi_log[k] = "release" }) = 3

====
